---- MODULE Spec2Model ----
(***************************************************************************)
(* Model of the WordPress -> Liferay migrator: the Image Migrator          *)
(* (create_folders.py), the Content Migrator (create_news.py), the         *)
(* Category Mapper's pagination (get_categories_wordpress.py) and the      *)
(* orchestrator (main.py).                                                 *)
(*                                                                         *)
(* Text (names, titles, HTML bodies, URLs) is modelled as a sequence of    *)
(* one-character strings, so that sanitising, replacing and                *)
(* matching are computed, not assumed.  The alphabet is ASCII, U+0080 to   *)
(* U+00FF and the white space of Unicode; a character outside ASCII is     *)
(* written as its code point, "U+00E9", and text with other characters is  *)
(* outside the model.  The two remote systems are the                      *)
(* environment: every request's outcome is a nondeterministic choice       *)
(* among "ok", "http" (an error status) and "conn" (no usable answer).     *)
(***************************************************************************)
EXTENDS Integers, Sequences, FiniteSets, TLC

VARIABLES
    lrFolders,   \* Liferay document folders, in listing order: [id, name, parent]
    lrDocs,      \* Liferay documents, in listing order: [id, folder, title, url]
    nextId,      \* next identifier the Liferay server hands out
    calls,       \* the last two get-or-create calls made
    nCalls,      \* number of get-or-create calls made
    pgResponses, \* the answers a paginated endpoint gives to requests 1, 2, ...
    pgRun,       \* the result of one pagination loop over pgResponses
    world,       \* the WordPress site and category_mapping.json, fixed for a run
    pc,          \* where the run of main.py stands
    img,         \* process_posts' local state
    tempFiles,   \* names of the files in TEMP_FOLDER
    log,         \* what the run has done so far, in order
    news,        \* create_news.main's local state
    urlFile,     \* url_mapping.json: [exists, entries]
    lrContents,  \* Liferay structured contents, in listing order
    lrTaxonomy,  \* Liferay taxonomy: [vocabularies, categories], in listing order
    mapper       \* the Category Mapper script's state and category_mapping.json

serverVars == <<lrFolders, lrDocs, nextId>>
callVars == <<calls, nCalls>>
pageVars == <<pgResponses, pgRun>>
runVars == <<world, pc, img, tempFiles, log>>
newsVars == <<news, urlFile, lrContents>>
mapperVars == <<lrTaxonomy, mapper>>

vars == <<lrFolders, lrDocs, nextId, calls, nCalls, pgResponses, pgRun,
          world, pc, img, tempFiles, log, news, urlFile, lrContents,
          lrTaxonomy, mapper>>

(***************************************************************************)
(* Bounds of the model.                                                    *)
(***************************************************************************)
MaxCalls == 2
MaxPages == 3
MaxCategories == 2

(***************************************************************************)
(* Text helpers: Python's str methods on sequences.                        *)
(***************************************************************************)
\* the cased letters of the model's alphabet, A-Z and the Latin-1 letters
\* U+00C0..U+00DE; a character outside ASCII is written as its code point
UpperSeq == <<"A","B","C","D","E","F","G","H","I","J","K","L","M",
              "N","O","P","Q","R","S","T","U","V","W","X","Y","Z",
              "U+00C0","U+00C1","U+00C2","U+00C3","U+00C4","U+00C5",
              "U+00C6","U+00C7","U+00C8","U+00C9","U+00CA","U+00CB",
              "U+00CC","U+00CD","U+00CE","U+00CF","U+00D0","U+00D1",
              "U+00D2","U+00D3","U+00D4","U+00D5","U+00D6","U+00D8",
              "U+00D9","U+00DA","U+00DB","U+00DC","U+00DD","U+00DE">>
LowerSeq == <<"a","b","c","d","e","f","g","h","i","j","k","l","m",
              "n","o","p","q","r","s","t","u","v","w","x","y","z",
              "U+00E0","U+00E1","U+00E2","U+00E3","U+00E4","U+00E5",
              "U+00E6","U+00E7","U+00E8","U+00E9","U+00EA","U+00EB",
              "U+00EC","U+00ED","U+00EE","U+00EF","U+00F0","U+00F1",
              "U+00F2","U+00F3","U+00F4","U+00F5","U+00F6","U+00F8",
              "U+00F9","U+00FA","U+00FB","U+00FC","U+00FD","U+00FE">>

LowerChar(c) ==
    IF \E i \in DOMAIN UpperSeq : UpperSeq[i] = c
    THEN LowerSeq[CHOOSE i \in DOMAIN UpperSeq : UpperSeq[i] = c]
    ELSE c

\* str.lower()
Lower(s) == [i \in DOMAIN s |-> LowerChar(s[i])]

\* the characters str.isspace() holds for: what str.strip() removes and \s matches
Whitespace == {" ","\t","\n","\r","\f","U+000B",
               "U+001C","U+001D","U+001E","U+001F","U+0085","U+00A0",
               "U+1680","U+2000","U+2001","U+2002","U+2003","U+2004",
               "U+2005","U+2006","U+2007","U+2008","U+2009","U+200A",
               "U+2028","U+2029","U+202F","U+205F","U+3000"}

\* str.strip(): leading and trailing whitespace removed
Strip(s) ==
    IF \A i \in DOMAIN s : s[i] \in Whitespace THEN <<>>
    ELSE LET lo == CHOOSE i \in DOMAIN s :
                       /\ s[i] \notin Whitespace
                       /\ \A j \in 1..(i-1) : s[j] \in Whitespace
             hi == CHOOSE i \in DOMAIN s :
                       /\ s[i] \notin Whitespace
                       /\ \A j \in (i+1)..Len(s) : s[j] \in Whitespace
         IN SubSeq(s, lo, hi)

\* s[i..] starts with old
MatchAt(s, old, i) ==
    /\ i + Len(old) - 1 <= Len(s)
    /\ \A k \in 1..Len(old) : s[i + k - 1] = old[k]

\* str.startswith / str.endswith
StartsWith(s, p) == MatchAt(s, p, 1)
EndsWith(s, p) == Len(p) <= Len(s) /\ MatchAt(s, p, Len(s) - Len(p) + 1)

\* the occurrences of old (non-empty) in s[i..] replaced from the left: the
\* text up to the first occurrence, new, and the rest treated likewise
RECURSIVE ReplaceAt(_, _, _, _)
ReplaceAt(s, old, new, i) ==
    LET at == { j \in i..(Len(s) - Len(old) + 1) : MatchAt(s, old, j) }
    IN IF at = {} THEN SubSeq(s, i, Len(s))
       ELSE LET j == CHOOSE x \in at : \A y \in at : x <= y
            IN SubSeq(s, i, j - 1) \o new \o ReplaceAt(s, old, new, j + Len(old))

RECURSIVE Interleave(_, _, _)
Interleave(s, new, i) ==
    IF i > Len(s) THEN new
    ELSE new \o <<s[i]>> \o Interleave(s, new, i + 1)

\* str.replace(old, new): leftmost non-overlapping occurrences
Replace(s, old, new) ==
    IF old = <<>> THEN Interleave(s, new, 1) ELSE ReplaceAt(s, old, new, 1)

Digits == <<"0","1","2","3","4","5","6","7","8","9">>

\* str(n) for n >= 0
RECURSIVE Str(_)
Str(n) == IF n < 10 THEN <<Digits[n + 1]>>
          ELSE Str(n \div 10) \o <<Digits[(n % 10) + 1]>>

\* apply str.replace(c, "") for each c of chars, in order
RECURSIVE RemoveChars(_, _, _)
RemoveChars(s, chars, i) ==
    IF i > Len(chars) THEN s
    ELSE RemoveChars(Replace(s, <<chars[i]>>, <<>>), chars, i + 1)

(***************************************************************************)
(* create_folders.py: folder names.                                        *)
(***************************************************************************)
reserved_names == {
      <<"n","u","l","l">>,
      <<"c","o","n">>,
      <<"p","r","n">>,
      <<"a","u","x">>,
      <<"n","u","l">>,
      <<"c","o","m","1">>, <<"c","o","m","2">>, <<"c","o","m","3">>,
      <<"c","o","m","4">>, <<"c","o","m","5">>, <<"c","o","m","6">>,
      <<"c","o","m","7">>, <<"c","o","m","8">>, <<"c","o","m","9">>,
      <<"l","p","t","1">>, <<"l","p","t","2">>, <<"l","p","t","3">>,
      <<"l","p","t","4">>, <<"l","p","t","5">>, <<"l","p","t","6">>,
      <<"l","p","t","7">>, <<"l","p","t","8">>, <<"l","p","t","9">> }

\* r'<>:"/\\|?*' : the raw string holds the backslash twice
invalid_chars == <<"<", ">", ":", "\"", "/", "\\", "\\", "|", "?", "*">>

MaxTitleLen == 255

\* sanitize_folder_title raises ValueError
SanitizeRaises(title) == title = <<>>

\* mutant of sanitize_folder_title: reserved names are let through
sanitize_keeping_reserved(title) ==
    LET t1 == RemoveChars(title, invalid_chars, 1)
        t2 == IF EndsWith(t1, <<".", ".">>) THEN SubSeq(t1, 1, Len(t1) - 2) ELSE t1
    IN SubSeq(t2, 1, IF Len(t2) < MaxTitleLen THEN Len(t2) ELSE MaxTitleLen)

\* sanitize_folder_title's return value (title non-empty)
sanitize_folder_title(title) ==
    LET t1 == RemoveChars(title, invalid_chars, 1)
        t2 == IF EndsWith(t1, <<".", ".">>) THEN SubSeq(t1, 1, Len(t1) - 2) ELSE t1
        t3 == Replace(Replace(t2, <<".", ".", "/">>, <<>>), <<"/", ".", ".", ".">>, <<>>)
        t4 == IF Lower(t3) \in reserved_names
              THEN t3 \o <<"_","s","a","f","e">> ELSE t3
    IN SubSeq(t4, 1, IF Len(t4) < MaxTitleLen THEN Len(t4) ELSE MaxTitleLen)

RECURSIVE UniqueFrom(_, _, _, _)
UniqueFrom(base_name, existing_names, new_name, counter) ==
    IF new_name \in existing_names
    THEN UniqueFrom(base_name, existing_names,
                    base_name \o <<"_">> \o Str(counter), counter + 1)
    ELSE new_name

\* mutant of generate_unique_name: the suffixes start at 2
generate_unique_name_from_2(base_name, existing_names) ==
    UniqueFrom(base_name, existing_names, base_name, 2)

\* generate_unique_name(base_name, existing_names)
generate_unique_name(base_name, existing_names) ==
    UniqueFrom(base_name, existing_names, base_name, 1)

(***************************************************************************)
(* The Liferay server as the code sees it.  A request is answered "ok",    *)
(* with an error status ("http": raise_for_status raises HTTPError) or not *)
(* at all ("conn": another exception).                                     *)
(***************************************************************************)
Outcomes == {"ok", "http", "conn"}

\* parent of the folders listed by /sites/{site_id}/document-folders
SiteRoot == 0

\* "no URL": what check_if_image_exists_in_folder returns as None
None == <<>>

\* the items of a folder listing, in the server's order
Children(folders, parent) == SelectSeq(folders, LAMBDA f : f.parent = parent)

Names(items) == {items[i].name : i \in DOMAIN items}

HasNamed(items, name) == \E i \in DOMAIN items : items[i].name = name

\* the first item of a listing that carries the name
FirstNamed(items, name) ==
    items[CHOOSE i \in DOMAIN items :
              /\ items[i].name = name
              /\ \A j \in 1..(i-1) : items[j].name # name]

\* the server's answer to a successful folder creation request
PostFolder(folders, nid, parent, name) ==
    Append(folders, [id |-> nid, name |-> name, parent |-> parent])

\* contentUrl the server gives a new document
ContentUrl(id) == <<"/","d","o","c","u","m","e","n","t","s","/">> \o Str(id)

(***************************************************************************)
(* create_or_get_folder_in_liferay(title, site_id).  The result tells      *)
(* whether the call raised, the identifier returned, the server's folders  *)
(* afterwards and the names sent in creation requests.                     *)
(***************************************************************************)
create_or_get_folder_in_liferay(title, folders, nid, oList, oCreate) ==
    IF SanitizeRaises(title) \/ oList # "ok"
    THEN [raised |-> TRUE, ret |-> 0, folders |-> folders, nextId |-> nid,
          posts |-> <<>>, clean |-> FALSE]
    ELSE LET sanitized_title == sanitize_folder_title(title)
             items == Children(folders, SiteRoot)
         IN IF HasNamed(items, sanitized_title)
            THEN [raised |-> FALSE, ret |-> FirstNamed(items, sanitized_title).id,
                  folders |-> folders, nextId |-> nid, posts |-> <<>>,
                  clean |-> TRUE]
            ELSE IF oCreate = "ok"
                 THEN [raised |-> FALSE, ret |-> nid,
                       folders |-> PostFolder(folders, nid, SiteRoot, sanitized_title),
                       nextId |-> nid + 1, posts |-> <<sanitized_title>>,
                       clean |-> TRUE]
                 ELSE [raised |-> TRUE, ret |-> 0, folders |-> folders,
                       nextId |-> nid, posts |-> <<sanitized_title>>,
                       clean |-> FALSE]

(***************************************************************************)
(* create_or_get_subfolder(parent_folder_id, subfolder_name).  It never    *)
(* raises: every failure ends in the parent's identifier being returned.   *)
(* o = <<first listing, first creation, second listing, second creation>>. *)
(***************************************************************************)
\* the outcome runs that differ in a request the call issues (the outcome of
\* a request it never issues is written "ok")
SubfolderOutcomes ==
    { o \in [1..4 -> Outcomes] :
        /\ o[1] = "conn" => (o[2] = "ok" /\ o[3] = "ok" /\ o[4] = "ok")
        /\ o[1] = "http" => o[2] = "ok"
        /\ (o[1] = "ok" /\ o[2] # "http") => (o[3] = "ok" /\ o[4] = "ok")
        /\ o[3] = "conn" => o[4] = "ok" }

FolderOutcomes ==
    { o \in [1..2 -> Outcomes] : o[1] # "ok" => o[2] = "ok" }

SemTitulo == <<"S","E","M"," ","T","I","T","U","L","O">>

\* the except HTTPError branch: list again (status unchecked), create again
SubfolderRetry(parent, sanitized_title, folders, nid, sent, o) ==
    IF o[3] = "conn"
    THEN [raised |-> FALSE, ret |-> parent, folders |-> folders, nextId |-> nid,
          posts |-> sent, clean |-> FALSE]
    ELSE LET existing == IF o[3] = "ok" THEN Names(Children(folders, parent)) ELSE {}
             unique_name == generate_unique_name(sanitized_title, existing)
         IN IF o[4] = "ok"
            THEN [raised |-> FALSE, ret |-> nid,
                  folders |-> PostFolder(folders, nid, parent, unique_name),
                  nextId |-> nid + 1, posts |-> Append(sent, unique_name),
                  clean |-> FALSE]
            ELSE [raised |-> FALSE, ret |-> parent, folders |-> folders,
                  nextId |-> nid, posts |-> Append(sent, unique_name),
                  clean |-> FALSE]

create_or_get_subfolder(parent, subfolder_name, folders, nid, o) ==
    LET name == IF Strip(subfolder_name) = <<>> THEN SemTitulo ELSE subfolder_name
        sanitized_title == sanitize_folder_title(name)
    IN IF o[1] = "conn"
       THEN [raised |-> FALSE, ret |-> parent, folders |-> folders, nextId |-> nid,
             posts |-> <<>>, clean |-> FALSE]
       ELSE IF o[1] = "http"
       THEN SubfolderRetry(parent, sanitized_title, folders, nid, <<>>, o)
       ELSE LET items == Children(folders, parent)
                existing_names == Names(items)
                unique_name == generate_unique_name(sanitized_title, existing_names)
            IN IF HasNamed(items, unique_name)
               THEN [raised |-> FALSE, ret |-> FirstNamed(items, unique_name).id,
                     folders |-> folders, nextId |-> nid, posts |-> <<>>,
                     clean |-> TRUE]
               ELSE IF o[2] = "ok"
               THEN [raised |-> FALSE, ret |-> nid,
                     folders |-> PostFolder(folders, nid, parent, unique_name),
                     nextId |-> nid + 1, posts |-> <<unique_name>>, clean |-> TRUE]
               ELSE IF o[2] = "http"
               THEN SubfolderRetry(parent, sanitized_title, folders, nid,
                                   <<unique_name>>, o)
               ELSE [raised |-> FALSE, ret |-> parent, folders |-> folders,
                     nextId |-> nid, posts |-> <<unique_name>>, clean |-> FALSE]

(***************************************************************************)
(* Documents.                                                              *)
(***************************************************************************)
DocsOf(docs, folder_id) == SelectSeq(docs, LAMBDA d : d.folder = folder_id)

\* mutant of check_if_image_exists_in_folder: no document is ever found
check_never_finds(folder_id, image_name, docs) == None

\* check_if_image_exists_in_folder, its listing request answered
check_if_image_exists_in_folder(folder_id, image_name, docs) ==
    LET items == DocsOf(docs, folder_id)
    IN IF \E i \in DOMAIN items : items[i].title = image_name
       THEN items[CHOOSE i \in DOMAIN items :
                      /\ items[i].title = image_name
                      /\ \A j \in 1..(i-1) : items[j].title # image_name].url
       ELSE None

\* upload_image_to_liferay(folder_id, image_path), image_name the basename
\* of image_path, a file the caller has written
upload_image_to_liferay(folder_id, image_name, docs, nid, oList, oPost) ==
    IF oList # "ok"
    THEN [raised |-> TRUE, ret |-> None, docs |-> docs, nextId |-> nid, uploads |-> 0]
    ELSE LET existing_image_url ==
                 check_if_image_exists_in_folder(folder_id, image_name, docs)
         IN IF existing_image_url # None
            THEN [raised |-> FALSE, ret |-> existing_image_url, docs |-> docs,
                  nextId |-> nid, uploads |-> 0]
            ELSE IF oPost = "ok"
                 THEN [raised |-> FALSE, ret |-> ContentUrl(nid),
                       docs |-> Append(docs, [id |-> nid, folder |-> folder_id,
                                              title |-> image_name,
                                              url |-> ContentUrl(nid)]),
                       nextId |-> nid + 1, uploads |-> 1]
                 ELSE [raised |-> TRUE, ret |-> None, docs |-> docs,
                       nextId |-> nid, uploads |-> 1]

(***************************************************************************)
(* The parts of the state a specification does not use stay as they are.   *)
(***************************************************************************)
NoWorld == [mapping_exists |-> FALSE, mapping |-> <<>>, posts |-> <<>>]

NoNews == [posts_data |-> <<>>, url_mapping |-> <<>>, post |-> 0,
           initial |-> <<>>]

NoFile == [exists |-> FALSE, entries |-> <<>>]

NewsIdle == news = NoNews /\ urlFile = NoFile /\ lrContents = <<>>

NoImg == [cat |-> 0, posts |-> <<>>, post |-> 0, processed |-> {},
          urls |-> <<>>, image |-> 0, subfolder |-> 0, cause |-> "none"]

CallsIdle == calls = <<>> /\ nCalls = 0

NoTaxonomy == [vocabularies |-> <<>>, categories |-> <<>>]

NoMapper == [pc |-> "idle"]

MapperIdle == lrTaxonomy = NoTaxonomy /\ mapper = NoMapper

PagesIdle == pgResponses = <<>> /\ pgRun = [loop |-> "none"]

RunIdle == /\ world = NoWorld
           /\ pc = "idle"
           /\ img = NoImg
           /\ tempFiles = {}
           /\ log = <<>>

(***************************************************************************)
(* SpecFolders: the get-or-create operations called one after another on   *)
(* a Liferay server, from several starting states.  calls keeps the last   *)
(* two calls; nCalls counts them all.                                      *)
(***************************************************************************)
Foo == <<"F","o","o">>

Titles == { Foo, <<"C","O","N">>, <<" ">>, <<"<">> }

FileNames == { <<"a",".","j","p","g">>, <<"b",".","p","n","g">> }

InitialFolders ==
    { <<>>,
      <<[id |-> 1, name |-> Foo, parent |-> SiteRoot]>>,
      <<[id |-> 1, name |-> Foo, parent |-> SiteRoot],
        [id |-> 2, name |-> Foo, parent |-> 1],
        [id |-> 3, name |-> Foo \o <<"_","1">>, parent |-> 1]>> }

InitialDocs(folders) ==
    { <<>> } \cup
    { <<[id |-> Len(folders) + 1, folder |-> folders[i].id,
         title |-> <<"a",".","j","p","g">>,
         url |-> ContentUrl(Len(folders) + 1)]>> : i \in DOMAIN folders }

FolderIds(folders) == {folders[i].id : i \in DOMAIN folders}

Remember(history, call) ==
    IF Len(history) < 2 THEN Append(history, call)
    ELSE <<history[2], call>>

InitFolders ==
    /\ lrFolders \in InitialFolders
    /\ lrDocs = <<>>
    /\ nextId = Len(lrFolders) + 1
    /\ calls = <<>>
    /\ nCalls = 0
    /\ PagesIdle
    /\ RunIdle
    /\ NewsIdle
    /\ MapperIdle

CallFolder ==
    /\ nCalls < MaxCalls
    /\ \E title \in Titles, o \in FolderOutcomes :
         LET r == create_or_get_folder_in_liferay(title, lrFolders, nextId,
                                                  o[1], o[2])
             oList == o[1]
         IN /\ lrFolders' = r.folders
            /\ nextId' = r.nextId
            /\ calls' = Remember(calls,
                   [op |-> "folder", parent |-> SiteRoot, name |-> title,
                    raised |-> r.raised, ret |-> r.ret, requests |-> Len(r.posts),
                    sent |-> r.posts,
                    clean |-> r.clean, held |-> FALSE, heldUrl |-> None,
                    listed |-> oList = "ok"])
    /\ nCalls' = nCalls + 1
    /\ UNCHANGED <<mapperVars, lrDocs, pageVars, runVars, newsVars>>

CallSubfolder ==
    /\ nCalls < MaxCalls
    /\ \E parent \in FolderIds(lrFolders), name \in Titles,
          o \in SubfolderOutcomes :
         LET r == create_or_get_subfolder(parent, name, lrFolders, nextId, o)
         IN /\ lrFolders' = r.folders
            /\ nextId' = r.nextId
            /\ calls' = Remember(calls,
                   [op |-> "subfolder", parent |-> parent, name |-> name,
                    raised |-> r.raised, ret |-> r.ret, requests |-> Len(r.posts),
                    sent |-> r.posts,
                    clean |-> r.clean, held |-> FALSE, heldUrl |-> None,
                    listed |-> o[1] = "ok"])
    /\ nCalls' = nCalls + 1
    /\ UNCHANGED <<mapperVars, lrDocs, pageVars, runVars, newsVars>>

CallUpload ==
    /\ nCalls < MaxCalls
    /\ \E folder_id \in FolderIds(lrFolders), image_name \in FileNames,
          o \in FolderOutcomes :
         LET r == upload_image_to_liferay(folder_id, image_name, lrDocs, nextId,
                                          o[1], o[2])
             oList == o[1]
             before == SelectSeq(DocsOf(lrDocs, folder_id),
                                 LAMBDA d : d.title = image_name)
         IN /\ lrDocs' = r.docs
            /\ nextId' = r.nextId
            /\ calls' = Remember(calls,
                   [op |-> "upload", parent |-> folder_id, name |-> image_name,
                    raised |-> r.raised, ret |-> r.ret, requests |-> r.uploads,
                    sent |-> <<>>,
                    clean |-> ~r.raised, held |-> before # <<>>,
                    heldUrl |-> IF before # <<>> THEN before[1].url ELSE None,
                    listed |-> oList = "ok"])
    /\ nCalls' = nCalls + 1
    /\ UNCHANGED <<mapperVars, lrFolders, pageVars, runVars, newsVars>>

NextFolders == CallFolder \/ CallSubfolder

SpecFolders == InitFolders /\ [][NextFolders]_vars

(***************************************************************************)
(* SpecUpload: upload_image_to_liferay called again and again on a server  *)
(* that holds some folders and, possibly, a document.                      *)
(***************************************************************************)
InitUpload ==
    /\ lrFolders \in InitialFolders
    /\ lrDocs \in InitialDocs(lrFolders)
    /\ nextId = Len(lrFolders) + Len(lrDocs) + 1
    /\ calls = <<>>
    /\ nCalls = 0
    /\ PagesIdle
    /\ RunIdle
    /\ NewsIdle
    /\ MapperIdle

NextUpload == CallUpload

SpecUpload == InitUpload /\ [][NextUpload]_vars

\* two successive calls of the same operation with the same arguments
SameCall(a, b) == a.op = b.op /\ a.parent = b.parent /\ a.name = b.name

\* C1 (as claimed): two successive calls of create_or_get_folder_in_liferay
\* with the same title, or of create_or_get_subfolder with the same parent and
\* name, every request of which the server answered, return the same folder
\* identifier, and the second call issues no creation request.
C1_GetOrCreateIdempotent ==
    (/\ Len(calls) = 2
     /\ calls[1].op \in {"folder", "subfolder"}
     /\ SameCall(calls[1], calls[2])
     /\ calls[1].clean /\ calls[2].clean)
    => /\ calls[1].ret = calls[2].ret
       /\ calls[2].requests = 0
       /\ calls[1].requests + calls[2].requests <= 1

\* the half of C1 that the code keeps: the site-level folder
C1_FolderHalfHolds ==
    (/\ Len(calls) = 2
     /\ calls[1].op = "folder"
     /\ SameCall(calls[1], calls[2])
     /\ calls[1].clean /\ calls[2].clean)
    => /\ calls[1].ret = calls[2].ret
       /\ calls[2].requests = 0

\* C20 (as claimed): every name sent in a folder or subfolder creation
\* request is non-empty, at most 255 characters long, free of the characters
\* < > : " / \ | ? * and not a reserved name.
C20_SentNamesValid ==
    \A i \in DOMAIN calls :
        calls[i].op \in {"folder", "subfolder"} =>
            \A k \in DOMAIN calls[i].sent :
                LET name == calls[i].sent[k]
                IN /\ name # <<>>
                   /\ Len(name) <= MaxTitleLen
                   /\ \A c \in DOMAIN name :
                         \A x \in DOMAIN invalid_chars : name[c] # invalid_chars[x]
                   /\ Lower(name) \notin reserved_names

\* the part of C20 that the code keeps: no sent name holds an invalid
\* character or is a reserved name
C20_CharactersAndReservedHold ==
    \A i \in DOMAIN calls :
        calls[i].op \in {"folder", "subfolder"} =>
            \A k \in DOMAIN calls[i].sent :
                LET name == calls[i].sent[k]
                IN /\ \A c \in DOMAIN name :
                         \A x \in DOMAIN invalid_chars : name[c] # invalid_chars[x]
                   /\ Lower(name) \notin reserved_names

\* C2: an upload call whose listing request is answered issues no upload
\* request and returns the existing document's URL when the folder already
\* holds a document titled like the file, and issues exactly one upload
\* request otherwise; a call whose listing fails issues none.  Two successive
\* calls with the same folder and file that both return give the same URL and
\* create one document between them (none if the folder held it before), and
\* the folder then holds exactly one document of that title.
C2_UploadIdempotent ==
    /\ \A i \in DOMAIN calls :
         calls[i].op = "upload" =>
            /\ (calls[i].listed /\ calls[i].held) =>
                   /\ calls[i].requests = 0
                   /\ ~calls[i].raised
                   /\ calls[i].ret = calls[i].heldUrl
            /\ (calls[i].listed /\ ~calls[i].held) => calls[i].requests = 1
            /\ ~calls[i].listed => calls[i].requests = 0
    /\ (/\ Len(calls) = 2
        /\ calls[1].op = "upload"
        /\ SameCall(calls[1], calls[2])
        /\ ~calls[1].raised /\ ~calls[2].raised)
       => /\ calls[1].ret = calls[2].ret
          /\ calls[2].requests = 0
          /\ calls[1].requests = (IF calls[1].held THEN 0 ELSE 1)
          /\ Len(SelectSeq(DocsOf(lrDocs, calls[2].parent),
                           LAMBDA d : d.title = calls[2].name)) = 1

\* C2 witness: a first call uploaded the file and a second call with the same
\* folder and file reused the document
C2_Witness ==
    /\ Len(calls) = 2
    /\ calls[1].op = "upload"
    /\ SameCall(calls[1], calls[2])
    /\ ~calls[1].raised /\ ~calls[2].raised
    /\ ~calls[1].held /\ calls[1].requests = 1
    /\ calls[2].held /\ calls[2].requests = 0

(***************************************************************************)
(* Pagination.  A paginated endpoint is the sequence of its answers to the *)
(* requests for page 1, 2, ...: [ok, answered, data].  A request beyond    *)
(* the answers listed is answered with an error.                           *)
(***************************************************************************)
per_page == 100

\* an answer with an error status
FailedResponse == [ok |-> FALSE, answered |-> TRUE, data |-> <<>>]

\* a request that gets no answer: requests.get raises
NoAnswer == [ok |-> FALSE, answered |-> FALSE, data |-> <<>>]

Response(responses, page) ==
    IF page <= Len(responses) THEN responses[page] ELSE FailedResponse

RECURSIVE PostsLoop(_, _, _)
PostsLoop(responses, page, posts) ==
    LET r == Response(responses, page)
    IN IF ~r.ok
       THEN [posts |-> posts, requests |-> page, raised |-> FALSE]
       ELSE IF Len(r.data) < per_page
            THEN [posts |-> posts \o r.data, requests |-> page, raised |-> FALSE]
            ELSE PostsLoop(responses, page + 1, posts \o r.data)

RECURSIVE PostsLoopUntilEmpty(_, _, _)
PostsLoopUntilEmpty(responses, page, posts) ==
    LET r == Response(responses, page)
    IN IF ~r.ok
       THEN [posts |-> posts, requests |-> page, raised |-> FALSE]
       ELSE IF Len(r.data) = 0
            THEN [posts |-> posts \o r.data, requests |-> page, raised |-> FALSE]
            ELSE PostsLoopUntilEmpty(responses, page + 1, posts \o r.data)

\* mutant of get_posts_by_category: the loop ends on an empty page only
get_posts_by_category_until_empty(responses) ==
    PostsLoopUntilEmpty(responses, 1, <<>>)

\* get_posts_by_category(category_id), responses the endpoint's answers for
\* that category: the posts returned and the number of requests issued
get_posts_by_category(responses) == PostsLoop(responses, 1, <<>>)

RECURSIVE CategoriesLoop(_, _, _)
CategoriesLoop(responses, page, categories) ==
    LET r == Response(responses, page)
    IN IF ~r.answered
       THEN [categories |-> <<>>, requests |-> page, raised |-> TRUE]
       ELSE IF r.ok
       THEN IF Len(r.data) = 0
            THEN [categories |-> categories \o r.data, requests |-> page,
                  raised |-> FALSE]
            ELSE CategoriesLoop(responses, page + 1, categories \o r.data)
       ELSE [categories |-> categories, requests |-> page, raised |-> FALSE]

RECURSIVE CategoriesLoopShort(_, _, _)
CategoriesLoopShort(responses, page, categories) ==
    LET r == Response(responses, page)
    IN IF ~r.answered
       THEN [categories |-> <<>>, requests |-> page, raised |-> TRUE]
       ELSE IF r.ok
       THEN IF Len(r.data) < per_page
            THEN [categories |-> categories \o r.data, requests |-> page,
                  raised |-> FALSE]
            ELSE CategoriesLoopShort(responses, page + 1, categories \o r.data)
       ELSE [categories |-> categories, requests |-> page, raised |-> FALSE]

\* mutant of get_all_categories: the loop ends on the first short page
get_all_categories_short(responses) == CategoriesLoopShort(responses, 1, <<>>)

\* get_all_categories(api_url), responses the endpoint's answers: an error
\* status ends the loop, a request without an answer raises out of the function
get_all_categories(responses) == CategoriesLoop(responses, 1, <<>>)

(***************************************************************************)
(* SpecPages: one pagination loop run over an endpoint whose answers are   *)
(* drawn from full, short and empty pages and failures.                    *)
(***************************************************************************)
PageSizes == {0, 37, per_page}

\* the items of page p when it holds n of them
PageData(p, n) == [j \in 1..n |-> 1000 * p + j]

Endpoints ==
    UNION { { [p \in 1..len |->
                 IF kind[p] = -1 THEN FailedResponse
                 ELSE IF kind[p] = -2 THEN NoAnswer
                 ELSE [ok |-> TRUE, answered |-> TRUE,
                       data |-> PageData(p, kind[p])]]
              : kind \in [1..len -> PageSizes \cup {-1, -2}] }
            : len \in 0..MaxPages }

InitPages ==
    /\ pgResponses \in Endpoints
    /\ pgRun = [loop |-> "none"]
    /\ lrFolders = <<>>
    /\ lrDocs = <<>>
    /\ nextId = 1
    /\ CallsIdle
    /\ RunIdle
    /\ NewsIdle
    /\ MapperIdle

RunPosts ==
    /\ pgRun.loop = "none"
    /\ LET r == get_posts_by_category(pgResponses)
       IN pgRun' = [loop |-> "posts", items |-> r.posts, requests |-> r.requests,
                    raised |-> r.raised]
    /\ UNCHANGED <<mapperVars, serverVars, callVars, pgResponses, runVars, newsVars>>

RunCategories ==
    /\ pgRun.loop = "none"
    /\ LET r == get_all_categories(pgResponses)
       IN pgRun' = [loop |-> "categories", items |-> r.categories,
                    requests |-> r.requests, raised |-> r.raised]
    /\ UNCHANGED <<mapperVars, serverVars, callVars, pgResponses, runVars, newsVars>>

NextPages == RunPosts \/ RunCategories

SpecPages == InitPages /\ [][NextPages]_vars

\* the data of the answers 1..k, in order
RECURSIVE ConcatPages(_, _)
ConcatPages(responses, k) ==
    IF k = 0 THEN <<>> ELSE ConcatPages(responses, k - 1) \o responses[k].data

PageLengths(responses) == [p \in DOMAIN responses |-> Len(responses[p].data)]

AllOk(responses) == \A p \in DOMAIN responses : responses[p].ok

\* the first request that is answered with a short page or with a failure
FirstShortOrFailed(responses) ==
    CHOOSE k \in 1..(Len(responses) + 1) :
        /\ (~Response(responses, k).ok \/ Len(Response(responses, k).data) < per_page)
        /\ \A p \in 1..(k-1) :
              responses[p].ok /\ Len(responses[p].data) >= per_page

\* C3: get_posts_by_category returns the pages 1..k concatenated in order,
\* k the first page shorter than 100, after exactly k requests (pages of sizes
\* 100, 100, 37 give 237 items after three requests); when request k fails
\* instead, it returns the pages 1..k-1 without raising and asks no further.
C3_PostsPagination ==
    pgRun.loop = "posts" =>
        LET k == FirstShortOrFailed(pgResponses)
        IN /\ pgRun.requests = k
           /\ ~pgRun.raised
           /\ Response(pgResponses, k).ok => pgRun.items = ConcatPages(pgResponses, k)
           /\ ~Response(pgResponses, k).ok =>
                  pgRun.items = ConcatPages(pgResponses, k - 1)
           /\ (AllOk(pgResponses) /\ PageLengths(pgResponses) = <<100, 100, 37>>)
                  => (Len(pgRun.items) = 237 /\ pgRun.requests = 3)

\* C3 witness: pages of sizes 100, 100, 37 aggregated
C3_Witness ==
    /\ pgRun.loop = "posts"
    /\ AllOk(pgResponses)
    /\ PageLengths(pgResponses) = <<100, 100, 37>>
    /\ Len(pgRun.items) = 237

\* C4 (as claimed): after a page with fewer than 100 items get_all_categories
\* issues no further request.
C4_StopsAtShortPage ==
    pgRun.loop = "categories" =>
        \A p \in 1..(pgRun.requests - 1) : Len(pgResponses[p].data) >= per_page

\* C4 (amended): get_all_categories stops at the first page with zero items or
\* the first failed request, and only there: every earlier page was answered
\* and non-empty, full or not, so pages of sizes 100, 100, 37 are followed by
\* a fourth request.  It returns the earlier pages in order, unless the last
\* request got no answer at all: then it raises.
C4_StopsAtEmptyPage ==
    pgRun.loop = "categories" =>
        /\ \A p \in 1..(pgRun.requests - 1) :
              pgResponses[p].ok /\ Len(pgResponses[p].data) > 0
        /\ LET last == Response(pgResponses, pgRun.requests)
           IN /\ ~last.ok \/ Len(last.data) = 0
              /\ pgRun.raised <=> ~last.answered
        /\ ~pgRun.raised => pgRun.items = ConcatPages(pgResponses, pgRun.requests - 1)
        /\ (AllOk(pgResponses) /\ PageLengths(pgResponses) = <<100, 100, 37>>)
               => (pgRun.requests = 4 /\ Len(pgRun.items) = 237)

\* C4 witness: a short, non-empty page was followed by another request
C4_Witness ==
    /\ pgRun.loop = "categories"
    /\ AllOk(pgResponses)
    /\ PageLengths(pgResponses) = <<100, 100, 37>>
    /\ pgRun.requests = 4
    /\ Len(pgRun.items) = 237

(***************************************************************************)
(* create_folders.py: images of a post.  HTML and URLs are sequences of    *)
(* characters, as titles are: the pattern match, startswith, basename and  *)
(* replace below look at characters, as the code does.                     *)
(***************************************************************************)
\* the literals <img and src=" of the pattern
ImgOpen == <<"<","i","m","g">>
SrcEq == <<"s","r","c","=","\"">>
Quote == "\""
Gt == ">"
Slash == "/"

Host ==
    <<"h","t","t","p","s",":","/","/","w","w","w","2",".","t","c",".",
      "d","f",".","g","o","v",".","b","r">>

\* index of the first tok at or after from, Len(s) + 1 when there is none
FirstAt(s, tok, from) ==
    IF \E i \in from..Len(s) : s[i] = tok
    THEN CHOOSE i \in from..Len(s) :
             s[i] = tok /\ \A j \in from..(i-1) : s[j] # tok
    ELSE Len(s) + 1

SetMax(S) == CHOOSE x \in S : \A y \in S : y <= x

\* re.findall(r'<img[^>]+src="([^"]+)"', content) from position i on: the
\* leftmost <img; [^>]+ is greedy, so the last src=" that one character or
\* more without > separate from it and that a non-empty value and a quote
\* follow; the value runs to the first quote, the search resumes after it
RECURSIVE ExtractFrom(_, _)
ExtractFrom(content, i) ==
    LET starts == { k \in i..(Len(content) - Len(ImgOpen) + 1) :
                      MatchAt(content, ImgOpen, k) }
    IN IF starts = {} THEN <<>>
       ELSE LET m == CHOOSE x \in starts : \A y \in starts : x <= y
                gt == FirstAt(content, Gt, m + Len(ImgOpen))
                cands == { j \in (m + Len(ImgOpen) + 1)..(gt - 1) :
                             /\ MatchAt(content, SrcEq, j)
                             /\ j + Len(SrcEq) <= Len(content)
                             /\ content[j + Len(SrcEq)] # Quote
                             /\ FirstAt(content, Quote, j + Len(SrcEq))
                                    <= Len(content) }
            IN IF cands = {} THEN ExtractFrom(content, m + 1)
               ELSE LET j == SetMax(cands)
                        q == FirstAt(content, Quote, j + Len(SrcEq))
                    IN <<SubSeq(content, j + Len(SrcEq), q - 1)>>
                       \o ExtractFrom(content, q + 1)

extract_image_urls(content) == ExtractFrom(content, 1)

filter_valid_image_urls(image_urls) ==
    SelectSeq(image_urls,
              LAMBDA url : \/ StartsWith(url, Host)
                           \/ StartsWith(url, <<"/","w","p","-","c","o","n","t","e","n","t">>)
                           \/ StartsWith(url, <<"/","w","p","-","c","o","n","t","e","u","d","o">>))

\* os.path.basename: what follows the last slash
basename(path) ==
    IF \E i \in DOMAIN path : path[i] = Slash
    THEN SubSeq(path, SetMax({i \in DOMAIN path : path[i] = Slash}) + 1, Len(path))
    ELSE path

DownloadOutcomes == {"ok", "fail", "partial"}

\* open(os.path.join(TEMP_FOLDER, image_name), "wb") raises: the path is a
\* directory (no name, "." or ".."), the name holds the null character
\* (ValueError) or it is longer than the 255 bytes a file system takes; in
\* UTF-8 an ASCII character is one byte, U+0080 to U+00FF two, the other
\* white space of the alphabet three
Unopenable(image_name) ==
    LET latin1 == {"U+0080", "U+0081", "U+0082", "U+0083", "U+0084", "U+0085",
                  "U+0086", "U+0087", "U+0088", "U+0089", "U+008A", "U+008B",
                  "U+008C", "U+008D", "U+008E", "U+008F", "U+0090", "U+0091",
                  "U+0092", "U+0093", "U+0094", "U+0095", "U+0096", "U+0097",
                  "U+0098", "U+0099", "U+009A", "U+009B", "U+009C", "U+009D",
                  "U+009E", "U+009F", "U+00A0", "U+00A1", "U+00A2", "U+00A3",
                  "U+00A4", "U+00A5", "U+00A6", "U+00A7", "U+00A8", "U+00A9",
                  "U+00AA", "U+00AB", "U+00AC", "U+00AD", "U+00AE", "U+00AF",
                  "U+00B0", "U+00B1", "U+00B2", "U+00B3", "U+00B4", "U+00B5",
                  "U+00B6", "U+00B7", "U+00B8", "U+00B9", "U+00BA", "U+00BB",
                  "U+00BC", "U+00BD", "U+00BE", "U+00BF", "U+00C0", "U+00C1",
                  "U+00C2", "U+00C3", "U+00C4", "U+00C5", "U+00C6", "U+00C7",
                  "U+00C8", "U+00C9", "U+00CA", "U+00CB", "U+00CC", "U+00CD",
                  "U+00CE", "U+00CF", "U+00D0", "U+00D1", "U+00D2", "U+00D3",
                  "U+00D4", "U+00D5", "U+00D6", "U+00D7", "U+00D8", "U+00D9",
                  "U+00DA", "U+00DB", "U+00DC", "U+00DD", "U+00DE", "U+00DF",
                  "U+00E0", "U+00E1", "U+00E2", "U+00E3", "U+00E4", "U+00E5",
                  "U+00E6", "U+00E7", "U+00E8", "U+00E9", "U+00EA", "U+00EB",
                  "U+00EC", "U+00ED", "U+00EE", "U+00EF", "U+00F0", "U+00F1",
                  "U+00F2", "U+00F3", "U+00F4", "U+00F5", "U+00F6", "U+00F7",
                  "U+00F8", "U+00F9", "U+00FA", "U+00FB", "U+00FC", "U+00FD",
                  "U+00FE", "U+00FF"}
        ascii_space == {" ", "\t", "\n", "\r", "\f", "U+000B",
                        "U+001C", "U+001D", "U+001E", "U+001F"}
        bytes == Len(image_name)
                 + Cardinality({i \in DOMAIN image_name : image_name[i] \in latin1})
                 + 2 * Cardinality({i \in DOMAIN image_name :
                          image_name[i] \in Whitespace \ (latin1 \cup ascii_space)})
    IN \/ image_name \in { <<>>, <<".">>, <<".", ".">> }
       \/ \E i \in DOMAIN image_name : image_name[i] = "U+0000"
       \/ bytes > 255

\* download_image(url, save_path): "fail" is a request that fails before the
\* file is opened, "partial" a body that breaks off after it was opened
download_image(url, image_name, temp, o) ==
    LET requested == IF StartsWith(url, <<Slash>>) THEN Host \o url ELSE url
    IN IF o = "fail" \/ Unopenable(image_name)
       THEN [raised |-> TRUE, temp |-> temp, requested |-> requested]
       ELSE [raised |-> o # "ok", temp |-> temp \cup {image_name},
             requested |-> requested]

ImageOutcomes ==
    { o \in DownloadOutcomes \X Outcomes \X Outcomes :
        /\ o[1] # "ok" => (o[2] = "ok" /\ o[3] = "ok")
        /\ o[2] # "ok" => o[3] = "ok" }

\* mutant of process_image: the failure of an image leaves the loop
process_image_raising(image_url, subfolder_id, docs, nid, temp, o) ==
    LET image_name == basename(image_url)
        d == download_image(image_url, image_name, temp, o[1])
        u == upload_image_to_liferay(subfolder_id, image_name, docs, nid, o[2], o[3])
    IN IF d.raised
       THEN [failed |-> TRUE, raised |-> TRUE, docs |-> docs, nextId |-> nid,
             temp |-> d.temp, uploads |-> 0]
       ELSE IF u.raised
       THEN [failed |-> TRUE, raised |-> TRUE, docs |-> u.docs, nextId |-> u.nextId,
             temp |-> d.temp, uploads |-> u.uploads]
       ELSE [failed |-> FALSE, raised |-> FALSE, docs |-> u.docs,
             nextId |-> u.nextId, temp |-> d.temp \ {image_name},
             uploads |-> u.uploads]

\* the body of process_posts' loop over valid_image_urls: download, upload,
\* remove the file; any exception is logged and the loop goes on
process_image(image_url, subfolder_id, docs, nid, temp, o) ==
    LET image_name == basename(image_url)
        d == download_image(image_url, image_name, temp, o[1])
        u == upload_image_to_liferay(subfolder_id, image_name, docs, nid, o[2], o[3])
    IN IF d.raised
       THEN [failed |-> TRUE, raised |-> FALSE, docs |-> docs, nextId |-> nid,
             temp |-> d.temp, uploads |-> 0]
       ELSE IF u.raised
       THEN [failed |-> TRUE, raised |-> FALSE, docs |-> u.docs, nextId |-> u.nextId,
             temp |-> d.temp, uploads |-> u.uploads]
       ELSE [failed |-> FALSE, raised |-> FALSE, docs |-> u.docs,
             nextId |-> u.nextId, temp |-> d.temp \ {image_name},
             uploads |-> u.uploads]

\* mutant of already_processed: no post is ever recognised
never_processed(post_id, processed_post_ids) == FALSE

\* post_id in processed_post_ids
already_processed(post_id, processed_post_ids) == post_id \in processed_post_ids

(***************************************************************************)
(* The WordPress site of a run.                                            *)
(***************************************************************************)
ImgTag(url) == ImgOpen \o <<" ">> \o SrcEq \o url \o <<Quote, Gt>>

LinkTag(url) == <<"<","a"," ","h","r","e","f","=","\"">> \o url \o <<Quote, Gt>>

WpSite ==
    <<"h","t","t","p","s",":","/","/","w","p",".","e","x","a","m","p",
      "l","e">>

\* two valid images (one absolute, one relative) around a foreign one
Post1 == [id |-> 1, title |-> Foo,
          content |-> ImgTag(Host \o <<"/","w","p","-","c","o","n","t","e","n","t","/","a",".","j","p","g">>)
                      \o ImgTag(<<"h","t","t","p","s",":","/","/","e","v","i","l",".","c","o","m","/","c",".","j","p","g">>)
                      \o ImgTag(<<"/","w","p","-","c","o","n","t","e","n","t","/","b",".","p","n","g">>),
          link |-> WpSite \o <<"/","f","o","o","/">>,
          categories |-> <<10, 20, 30>>]

\* same title as Post1, an image of the same file name, a link to Post1
Post2 == [id |-> 2, title |-> Foo,
          content |-> <<"<","p",">">>
                      \o ImgTag(<<"/","w","p","-","c","o","n","t","e","u","d","o","/","a",".","j","p","g">>)
                      \o LinkTag(WpSite \o <<"/","f","o","o","/">>),
          link |-> WpSite \o <<"/","f","o","o","-","2","/">>,
          categories |-> <<20, 30>>]

\* blank title, no image
Post3 == [id |-> 3, title |-> <<" ">>,
          content |-> <<"<","p",">","t","e","x","t">>,
          link |-> WpSite \o <<"/","b","l","a","n","k","/">>,
          categories |-> <<10, 30>>]

\* category_mapping.json as the Category Mapper writes it
AllCategories ==
    << [wp_id |-> 10, wp_name |-> <<"N">>, lr_id |-> 110, lr_name |-> <<"N">>],
       [wp_id |-> 20, wp_name |-> <<"C","O","N">>, lr_id |-> 120,
        lr_name |-> <<"C","O","N">>],
       [wp_id |-> 30, wp_name |-> Foo, lr_id |-> 130, lr_name |-> Foo],
       [wp_id |-> 40, wp_name |-> <<"X">>, lr_id |-> 140, lr_name |-> <<"X">>] >>

\* what the posts endpoint may hold for one category
PostLists == { <<Post1>>, <<Post1, Post2>>, <<Post3, Post2>> }

Min(a, b) == IF a < b THEN a ELSE b

Worlds ==
    { NoWorld } \cup
    UNION { { [mapping_exists |-> TRUE,
               mapping |-> SubSeq(AllCategories, 1, n),
               posts |-> ps] : ps \in [1..n -> PostLists] }
            : n \in 0..Min(MaxCategories, Len(AllCategories)) }

(***************************************************************************)
(* Spec: main.py's Etapa 1, create_folders.process_posts, step by step.    *)
(* pc = "etapa2" is the point where main.py calls create_news.main (whose  *)
(* run is SpecNews); pc = "returned" is main.py's return after an error.   *)
(***************************************************************************)
\* mutant of after_images: the orchestrator goes on to Etapa 2 after an error
after_images_continue(raised) == "etapa2"

\* main.py after process_posts: an exception ends the run, a normal return
\* leads to Etapa 2
after_images(raised) == IF raised THEN "returned" ELSE "etapa2"

Event(ev, post, cat, url, ok) ==
    [ev |-> ev, post |-> post, cat |-> cat, url |-> url, ok |-> ok]

Init ==
    /\ world \in Worlds
    /\ pc = "main"
    /\ img = NoImg
    /\ tempFiles = {}
    /\ log = <<>>
    /\ lrFolders \in {<<>>, <<[id |-> 1, name |-> <<"N">>, parent |-> SiteRoot],
                              [id |-> 2, name |-> Foo, parent |-> 1]>>}
    /\ lrDocs = <<>>
    /\ nextId = Len(lrFolders) + 1
    /\ CallsIdle
    /\ PagesIdle
    /\ NewsIdle
    /\ MapperIdle

\* main.py calls process_posts, which loads the category mapping
StartImages ==
    /\ pc = "main"
    /\ IF world.mapping_exists
       THEN /\ pc' = "category"
            /\ img' = [img EXCEPT !.cat = 1]
       ELSE /\ pc' = after_images(TRUE)
            /\ img' = [img EXCEPT !.cause = "mapping"]
    /\ UNCHANGED <<mapperVars, world, tempFiles, log, serverVars, callVars, pageVars, newsVars>>

\* head of the loop over category_mapping: fetch the category's posts, or
\* leave process_posts when the mapping is exhausted
FetchCategory ==
    /\ pc = "category"
    /\ IF img.cat > Len(world.mapping)
       THEN /\ pc' = after_images(FALSE)
            /\ UNCHANGED <<img, log>>
       ELSE \E ok \in BOOLEAN :
              LET responses == IF ok
                               THEN <<[ok |-> TRUE, answered |-> TRUE,
                                      data |-> world.posts[img.cat]]>>
                               ELSE <<FailedResponse>>
                  r == get_posts_by_category(responses)
              IN /\ img' = [img EXCEPT !.posts = r.posts, !.post = 1]
                 /\ log' = Append(log, Event("fetch", 0, img.cat, <<>>, ok))
                 /\ pc' = "post"
    /\ UNCHANGED <<mapperVars, world, tempFiles, serverVars, callVars, pageVars, newsVars>>

\* head and body of the loop over posts, up to the loop over the images
ProcessPost ==
    /\ pc = "post"
    /\ IF img.post > Len(img.posts)
       THEN /\ pc' = "category"
            /\ img' = [img EXCEPT !.cat = @ + 1]
            /\ UNCHANGED <<log, serverVars>>
       ELSE LET post == img.posts[img.post]
                seen == Append(log, Event("seen", post.id, img.cat, <<>>, TRUE))
                valid_image_urls ==
                    filter_valid_image_urls(extract_image_urls(post.content))
            IN IF already_processed(post.id, img.processed)
               THEN /\ img' = [img EXCEPT !.post = @ + 1]
                    /\ log' = seen
                    /\ UNCHANGED <<pc, serverVars>>
               ELSE IF valid_image_urls = <<>>
               THEN /\ img' = [img EXCEPT !.post = @ + 1,
                                          !.processed = @ \cup {post.id}]
                    /\ log' = Append(seen,
                                  Event("extract", post.id, img.cat, <<>>, TRUE))
                    /\ UNCHANGED <<pc, serverVars>>
               ELSE \E fo \in FolderOutcomes, so \in SubfolderOutcomes :
                      LET f == create_or_get_folder_in_liferay(
                                   world.mapping[img.cat].lr_name,
                                   lrFolders, nextId, fo[1], fo[2])
                          sf == create_or_get_subfolder(
                                   f.ret, post.title, f.folders, f.nextId, so)
                          extracted == Append(seen,
                                  Event("extract", post.id, img.cat, <<>>, TRUE))
                      IN IF f.raised
                         THEN /\ pc' = after_images(TRUE)
                              /\ img' = [img EXCEPT !.processed = @ \cup {post.id},
                                                    !.cause = "folder"]
                              /\ log' = Append(extracted,
                                     Event("folders", post.id, img.cat, <<>>, FALSE))
                              /\ UNCHANGED serverVars
                         ELSE /\ pc' = "image"
                              /\ img' = [img EXCEPT !.processed = @ \cup {post.id},
                                                    !.urls = valid_image_urls,
                                                    !.image = 1,
                                                    !.subfolder = sf.ret]
                              /\ log' = Append(extracted,
                                     Event("folders", post.id, img.cat, <<>>, TRUE))
                              /\ lrFolders' = sf.folders
                              /\ nextId' = sf.nextId
                              /\ lrDocs' = lrDocs
    /\ UNCHANGED <<mapperVars, world, tempFiles, callVars, pageVars, newsVars>>

\* head and body of the loop over valid_image_urls
ProcessImage ==
    /\ pc = "image"
    /\ IF img.image > Len(img.urls)
       THEN /\ pc' = "post"
            /\ img' = [img EXCEPT !.post = @ + 1]
            /\ UNCHANGED <<log, tempFiles, serverVars>>
       ELSE \E o \in ImageOutcomes :
              LET image_url == img.urls[img.image]
                  post == img.posts[img.post]
                  r == process_image(image_url, img.subfolder, lrDocs, nextId,
                                     tempFiles, o)
              IN /\ lrDocs' = r.docs
                 /\ nextId' = r.nextId
                 /\ tempFiles' = r.temp
                 /\ log' = Append(log, Event("image", post.id, img.cat, image_url,
                                             ~r.failed))
                 /\ IF r.raised
                    THEN /\ pc' = after_images(TRUE)
                         /\ img' = [img EXCEPT !.cause = "image"]
                    ELSE /\ pc' = "image"
                         /\ img' = [img EXCEPT !.image = @ + 1]
                 /\ UNCHANGED lrFolders
    /\ UNCHANGED <<mapperVars, world, callVars, pageVars, newsVars>>

Next == StartImages \/ FetchCategory \/ ProcessPost \/ ProcessImage

Spec == Init /\ [][Next]_vars

(***************************************************************************)
(* Properties of the Image Migrator.                                       *)
(***************************************************************************)
AllPosts == {Post1, Post2, Post3}

PostById(id) == CHOOSE p \in AllPosts : p.id = id

ValidUrlsOf(id) ==
    filter_valid_image_urls(extract_image_urls(PostById(id).content))

\* the category under which the loop first met the post
FirstSeenCat(id) ==
    log[CHOOSE i \in DOMAIN log :
            /\ log[i].ev = "seen" /\ log[i].post = id
            /\ \A j \in 1..(i-1) : ~(log[j].ev = "seen" /\ log[j].post = id)].cat

\* the URLs of the image attempts made for a post, in order
RECURSIVE AttemptsOf(_, _)
AttemptsOf(id, n) ==
    IF n = 0 THEN <<>>
    ELSE IF log[n].ev = "image" /\ log[n].post = id
         THEN Append(AttemptsOf(id, n - 1), log[n].url)
         ELSE AttemptsOf(id, n - 1)

\* C5: in one run of process_posts every post is processed at most once:
\* its images are extracted once, and its folders and image transfers all
\* happen under the first category under which the loop met it.
C5_EachPostOnce ==
    /\ \A i, j \in DOMAIN log :
          (/\ log[i].ev = "extract" /\ log[j].ev = "extract"
           /\ log[i].post = log[j].post) => i = j
    /\ \A i \in DOMAIN log :
          log[i].ev \in {"extract", "folders", "image"}
              => log[i].cat = FirstSeenCat(log[i].post)

\* C5 witness: a post whose images were transferred under one category has
\* just been met again under a later category and skipped
C5_Witness ==
    /\ log # <<>>
    /\ log[Len(log)].ev = "seen"
    /\ \E i \in DOMAIN log :
          /\ log[i].ev = "image"
          /\ log[i].post = log[Len(log)].post
          /\ log[i].cat < log[Len(log)].cat

\* C6: the failure of one image never ends the post or the run: the run
\* never returns because of an image, and for every post whose folders were
\* obtained the attempts made are exactly its valid image URLs, in order (up
\* to the current one while its loop is running), whatever failed before.
C6_ImageFailureIsolated ==
    /\ pc = "returned" => img.cause # "image"
    /\ \A i \in DOMAIN log :
          (log[i].ev = "folders" /\ log[i].ok) =>
              LET id == log[i].post
                  valid == ValidUrlsOf(id)
              IN IF pc = "image" /\ img.posts[img.post].id = id
                 THEN AttemptsOf(id, Len(log)) = SubSeq(valid, 1, img.image - 1)
                 ELSE AttemptsOf(id, Len(log)) = valid
    /\ pc = "etapa2" =>
          \A c \in 1..Len(world.mapping) :
              \E i \in DOMAIN log : log[i].ev = "fetch" /\ log[i].cat = c

\* C6 witness: an image failed, a later image of the same post was still
\* attempted, a later post was still processed, and process_posts returned
C6_Witness ==
    /\ pc = "etapa2"
    /\ \E i, j, k \in DOMAIN log :
          /\ i < j /\ j < k
          /\ log[i].ev = "image" /\ ~log[i].ok
          /\ log[j].ev = "image" /\ log[j].post = log[i].post
          /\ log[k].ev = "image" /\ log[k].post # log[i].post

\* C7 (as claimed): a failure to obtain or create a folder for one post does
\* not end process_posts early, so main.py goes on to the Content Migrator.
C7_FolderFailureRecoverable ==
    ~(pc = "returned" /\ img.cause = "folder")

\* C19 (as claimed): once the Image Migrator has finished with an image URL,
\* whatever the outcome, the file staged for it is gone from TEMP_FOLDER; no
\* staged file is left between two images or at the end of process_posts.
C19_TempFilesRemoved ==
    tempFiles = {}

\* the part of C19 that the code keeps: an image whose download and upload (or
\* reuse) succeeded leaves no file behind
C19_RemovedAfterSuccess ==
    (log # <<>> /\ log[Len(log)].ev = "image" /\ log[Len(log)].ok)
        => basename(log[Len(log)].url) \notin tempFiles

\* C13 (as claimed): the Category Mapper has run before the Image Migrator
\* starts.
C13_ThreeStagesInSequence ==
    pc # "main" => mapper.pc # "idle"

\* where the orchestrator stands between its stages
StageOrder ==
    /\ mapper.pc = "idle"
    /\ pc = "etapa2" => /\ img.cause = "none"
                        /\ world.mapping_exists
                        /\ img.cat > Len(world.mapping)
    /\ pc = "returned" => img.cause # "none"

\* the Content Migrator is started from the normal end of process_posts
\* only, and nothing follows the return after an error
StageStep ==
    /\ (pc' = "etapa2" /\ pc # "etapa2") =>
           (pc = "category" /\ img.cat > Len(world.mapping) /\ img.cause = "none")
    /\ pc = "returned" => pc' = "returned"
    /\ pc = "etapa2" => pc' = "etapa2"

\* C13 (amended): the orchestrator runs two stages in sequence, the Image
\* Migrator and then the Content Migrator, and never starts the Category
\* Mapper; the Content Migrator starts only after process_posts has gone
\* through every mapped category and returned, and an exception that escapes
\* the Image Migrator ends the run without the Content Migrator being started.
C13_TwoStagesInSequence == []StageOrder /\ [][StageStep]_vars

\* C13 witness: an exception escaped the Image Migrator after it had worked
\* on a post, and the run ended there
C13_Witness ==
    /\ pc = "returned"
    /\ img.cause = "folder"
    /\ \E i \in DOMAIN log : log[i].ev = "extract"

(***************************************************************************)
(* create_news.py: the Content Migrator.                                   *)
(***************************************************************************)
Letters == {UpperSeq[i] : i \in DOMAIN UpperSeq} \cup {LowerSeq[i] : i \in DOMAIN LowerSeq}

DigitChars == {Digits[i] : i \in DOMAIN Digits}

\* unidecode.unidecode on one character of the alphabet: an ASCII character
\* is kept, a character of U+0080..U+00FF becomes the ASCII text of the
\* package's table (nothing for U+0080..U+009F), a Unicode space a space
Unidecode(c) ==
    CASE c \in {"U+00C0", "U+00C1", "U+00C2", "U+00C3", "U+00C4", "U+00C5"} -> <<"A">>
      [] c \in {"U+00C6"} -> <<"A", "E">>
      [] c \in {"U+00C7"} -> <<"C">>
      [] c \in {"U+00C8", "U+00C9", "U+00CA", "U+00CB"} -> <<"E">>
      [] c \in {"U+00CC", "U+00CD", "U+00CE", "U+00CF"} -> <<"I">>
      [] c \in {"U+00D0"} -> <<"D">>
      [] c \in {"U+00D1"} -> <<"N">>
      [] c \in {"U+00D2", "U+00D3", "U+00D4", "U+00D5", "U+00D6", "U+00D8"} -> <<"O">>
      [] c \in {"U+00D7"} -> <<"x">>
      [] c \in {"U+00D9", "U+00DA", "U+00DB", "U+00DC"} -> <<"U">>
      [] c \in {"U+00DD"} -> <<"Y">>
      [] c \in {"U+00DE"} -> <<"T", "h">>
      [] c \in {"U+00DF"} -> <<"s", "s">>
      [] c \in {"U+00E0", "U+00E1", "U+00E2", "U+00E3", "U+00E4", "U+00E5"} -> <<"a">>
      [] c \in {"U+00E6"} -> <<"a", "e">>
      [] c \in {"U+00E7"} -> <<"c">>
      [] c \in {"U+00E8", "U+00E9", "U+00EA", "U+00EB"} -> <<"e">>
      [] c \in {"U+00EC", "U+00ED", "U+00EE", "U+00EF"} -> <<"i">>
      [] c \in {"U+00F0"} -> <<"d">>
      [] c \in {"U+00F1"} -> <<"n">>
      [] c \in {"U+00F2", "U+00F3", "U+00F4", "U+00F5", "U+00F6", "U+00F8"} -> <<"o">>
      [] c \in {"U+00F7"} -> <<"/">>
      [] c \in {"U+00F9", "U+00FA", "U+00FB", "U+00FC"} -> <<"u">>
      [] c \in {"U+00FD", "U+00FF"} -> <<"y">>
      [] c \in {"U+00FE"} -> <<"t", "h">>
      [] c \in {"U+00A0", "U+1680", "U+2000", "U+2001", "U+2002", "U+2003",
                 "U+2004", "U+2005", "U+2006", "U+2007", "U+2008", "U+2009",
                 "U+200A", "U+202F", "U+205F", "U+3000"} -> <<" ">>
      [] c = "U+2028" -> <<"\n">>
      [] c = "U+2029" -> <<"\n", "\n">>
      [] c \in {"U+00A1", "U+00AC"} -> <<"!">>
      [] c \in {"U+00A2"} -> <<"C", "/">>
      [] c \in {"U+00A3"} -> <<"P", "S">>
      [] c \in {"U+00A4"} -> <<"$", "?">>
      [] c \in {"U+00A5"} -> <<"Y", "=">>
      [] c \in {"U+00A6"} -> <<"|">>
      [] c \in {"U+00A7"} -> <<"S", "S">>
      [] c \in {"U+00A8"} -> <<"\"">>
      [] c \in {"U+00A9"} -> <<"(", "c", ")">>
      [] c \in {"U+00AA"} -> <<"a">>
      [] c \in {"U+00AB"} -> <<"<", "<">>
      [] c \in {"U+00AD"} -> <<>>
      [] c \in {"U+00AE"} -> <<"(", "r", ")">>
      [] c \in {"U+00AF"} -> <<"-">>
      [] c \in {"U+00B0"} -> <<"d", "e", "g">>
      [] c \in {"U+00B1"} -> <<"+", "-">>
      [] c \in {"U+00B2"} -> <<"2">>
      [] c \in {"U+00B3"} -> <<"3">>
      [] c \in {"U+00B4"} -> <<"'">>
      [] c \in {"U+00B5"} -> <<"u">>
      [] c \in {"U+00B6"} -> <<"P">>
      [] c \in {"U+00B7"} -> <<"*">>
      [] c \in {"U+00B8"} -> <<",">>
      [] c \in {"U+00B9"} -> <<"1">>
      [] c \in {"U+00BA"} -> <<"o">>
      [] c \in {"U+00BB"} -> <<">", ">">>
      [] c \in {"U+00BC"} -> <<" ", "1", "/", "4">>
      [] c \in {"U+00BD"} -> <<" ", "1", "/", "2">>
      [] c \in {"U+00BE"} -> <<" ", "3", "/", "4">>
      [] c \in {"U+00BF"} -> <<"?">>
      [] c \in {"U+0080", "U+0081", "U+0082", "U+0083", "U+0084", "U+0085",
                 "U+0086", "U+0087", "U+0088", "U+0089", "U+008A", "U+008B",
                 "U+008C", "U+008D", "U+008E", "U+008F", "U+0090", "U+0091",
                 "U+0092", "U+0093", "U+0094", "U+0095", "U+0096", "U+0097",
                 "U+0098", "U+0099", "U+009A", "U+009B", "U+009C", "U+009D",
                 "U+009E", "U+009F"} -> <<>>
      [] OTHER -> <<c>>

RECURSIVE UnidecodeAll(_)
UnidecodeAll(s) ==
    IF s = <<>> THEN <<>> ELSE Unidecode(Head(s)) \o UnidecodeAll(Tail(s))

\* re.sub(r"\s+", "-", s)
RECURSIVE SpacesToHyphen(_, _)
SpacesToHyphen(s, i) ==
    IF i > Len(s) THEN <<>>
    ELSE IF s[i] \in Whitespace
         THEN IF i > 1 /\ s[i - 1] \in Whitespace
              THEN SpacesToHyphen(s, i + 1)
              ELSE <<"-">> \o SpacesToHyphen(s, i + 1)
         ELSE <<s[i]>> \o SpacesToHyphen(s, i + 1)

\* str.strip("-")
StripHyphens(s) ==
    IF \A i \in DOMAIN s : s[i] = "-" THEN <<>>
    ELSE LET lo == CHOOSE i \in DOMAIN s :
                       s[i] # "-" /\ \A j \in 1..(i-1) : s[j] = "-"
             hi == CHOOSE i \in DOMAIN s :
                       s[i] # "-" /\ \A j \in (i+1)..Len(s) : s[j] = "-"
         IN SubSeq(s, lo, hi)

generate_friendly_url(title) ==
    LET normalized_title == UnidecodeAll(title)
        kept == SelectSeq(normalized_title,
                    LAMBDA c : c \in Letters \cup DigitChars \cup {"_", "-"}
                                 \cup Whitespace)
    IN StripHyphens(Lower(SpacesToHyphen(kept, 1)))

\* replace_image_urls and replace_internal_links: the same loop of literal
\* replacements, the mapping's entries applied in file order
RECURSIVE ReplaceByMapping(_, _, _)
ReplaceByMapping(content, url_mapping, i) ==
    IF i > Len(url_mapping) THEN content
    ELSE ReplaceByMapping(
             Replace(content, url_mapping[i].original_url, url_mapping[i].new_url),
             url_mapping, i + 1)

replace_image_urls(content, url_mapping) == ReplaceByMapping(content, url_mapping, 1)

replace_internal_links(content, url_mapping) ==
    ReplaceByMapping(content, url_mapping, 1)

\* mutant of load_url_mapping: the file is taken to be absent
load_url_mapping_absent(file) == <<>>

\* load_url_mapping(mapping_file)
load_url_mapping(file) == IF file.exists THEN file.entries ELSE <<>>

\* mutant of save_new_url_mapping: the file is rewritten with the new entry alone
save_new_url_mapping_fresh(file, original_url, new_url) ==
    [exists |-> TRUE,
     entries |-> <<[original_url |-> original_url, new_url |-> new_url]>>]

\* save_new_url_mapping(original_url, new_url): read the whole file, append,
\* write the whole file
save_new_url_mapping(file, original_url, new_url) ==
    LET mapping == IF file.exists THEN file.entries ELSE <<>>
    IN [exists |-> TRUE,
        entries |-> Append(mapping, [original_url |-> original_url,
                                     new_url |-> new_url])]

\* load_categories_mapping(): a missing file gives []
load_categories_mapping(w) == IF w.mapping_exists THEN w.mapping ELSE <<>>

\* a posts request: status 200 with the page and X-WP-TotalPages, or not
PostsPage(data, total) == [ok |-> TRUE, data |-> data, total_pages |-> total]

RECURSIVE FetchCategoryPages(_, _, _)
FetchCategoryPages(responses, page, posts) ==
    IF page > Len(responses) \/ ~responses[page].ok
    THEN [raised |-> TRUE, posts |-> posts, requests |-> page]
    ELSE LET got == posts \o responses[page].data
         IN IF page >= responses[page].total_pages
            THEN [raised |-> FALSE, posts |-> got, requests |-> page]
            ELSE FetchCategoryPages(responses, page + 1, got)

RECURSIVE FetchCategories(_, _, _, _)
FetchCategories(by_category, c, posts, requests) ==
    IF c > Len(by_category)
    THEN [raised |-> FALSE, posts |-> posts, requests |-> requests]
    ELSE LET r == FetchCategoryPages(by_category[c], 1, <<>>)
         IN IF r.raised
            THEN [raised |-> TRUE, posts |-> <<>>, requests |-> requests + r.requests]
            ELSE FetchCategories(by_category, c + 1, posts \o r.posts,
                                 requests + r.requests)

\* fetch_posts(wordpress_categories): site is the answer to the unfiltered
\* request, by_category the answers to each category's page requests
fetch_posts(wordpress_categories, site, by_category) ==
    IF wordpress_categories = <<>>
    THEN IF site.ok THEN [raised |-> FALSE, posts |-> site.data, requests |-> 1]
         ELSE [raised |-> TRUE, posts |-> <<>>, requests |-> 1]
    ELSE FetchCategories(by_category, 1, <<>>, 0)

\* liferay_category_ids of process_post
RECURSIVE TaxonomyIds(_, _, _)
TaxonomyIds(categories, category_mapping, i) ==
    IF i > Len(categories) THEN <<>>
    ELSE LET matching == SelectSeq(category_mapping,
                                   LAMBDA m : m.wp_id = categories[i])
         IN [k \in DOMAIN matching |-> matching[k].lr_id]
            \o TaxonomyIds(categories, category_mapping, i + 1)

\* answers to the creation request: a status, or no answer ("conn")
CreateOutcomes == {"200", "201", "500", "conn"}

\* mutant of created: only 201 counts as success
created_201_only(outcome) == outcome = "201"

\* response.status_code in (200, 201)
created(outcome) == outcome \in {"200", "201"}

ContentPaths(contents) == {contents[i].friendlyUrlPath : i \in DOMAIN contents}

\* the asked path made unique among the existing ones by a numeric suffix
UniqueFriendlyUrl(asked, contents) ==
    IF asked \in ContentPaths(contents)
    THEN LET free == { k \in 1..(Len(contents) + 1) :
                         (asked \o <<"-">> \o Str(k)) \notin ContentPaths(contents) }
             k == CHOOSE x \in free : \A y \in free : x <= y
         IN asked \o <<"-">> \o Str(k)
    ELSE asked

\* what the server may answer to a successful creation request: the new
\* content gets the path asked for or a path made unique (whether the server
\* disambiguates is its own business) and the answer reports it in the field
\* friendlyUrlPath, or the answer's JSON object holds no such field
CreateAnswers(asked, contents) ==
    { [friendlyUrlPath |-> path, reports |-> TRUE]
      : path \in {asked, UniqueFriendlyUrl(asked, contents)} }
    \cup { [friendlyUrlPath |-> UniqueFriendlyUrl(asked, contents),
            reports |-> FALSE] }

\* response_data.get("friendlyUrlPath", "URL n\u00e3o encontrada")
ReportedFriendlyUrl(response_data) ==
    IF response_data.reports THEN response_data.friendlyUrlPath
    ELSE <<"U","R","L"," ","n","U+00E3","o"," ",
           "e","n","c","o","n","t","r","a","d","a">>

\* process_post(post_data, url_mapping, category_mapping): the contents and
\* the mapping file afterwards, and the friendlyUrlPath recorded; outcome is
\* the status of the creation request, response_data its answer when created
process_post(post_data, url_mapping, category_mapping, contents, nid, file, outcome, response_data) ==
    LET liferay_category_ids ==
            TaxonomyIds(post_data.categories, category_mapping, 1)
        friendly_url == generate_friendly_url(post_data.title)
        content_html == replace_image_urls(post_data.content, url_mapping)
        new_page_url == ReportedFriendlyUrl(response_data)
    IN IF created(outcome)
       THEN [contents |-> Append(contents,
                 [id |-> nid, friendlyUrlPath |-> response_data.friendlyUrlPath,
                  title |-> post_data.title, body |-> content_html,
                  categories |-> liferay_category_ids, post |-> post_data.id]),
             nextId |-> nid + 1,
             file |-> save_new_url_mapping(file, post_data.link, new_page_url),
             reported |-> new_page_url, content |-> nid, raised |-> FALSE]
       ELSE [contents |-> contents, nextId |-> nid, file |-> file,
             reported |-> <<>>, content |-> 0, raised |-> FALSE]

\* get_content_id_by_friendly_url(friendly_url), 0 for None
get_content_id_by_friendly_url(friendly_url, contents, ok) ==
    LET results == SelectSeq(contents, LAMBDA c : c.friendlyUrlPath = friendly_url)
    IN IF ok /\ results # <<>> THEN results[1].id ELSE 0

\* the server's answer to a successful PATCH of TextoMateria
PatchContent(contents, content_id, updated_html) ==
    [i \in DOMAIN contents |->
        IF contents[i].id = content_id
        THEN [contents[i] EXCEPT !.body = updated_html]
        ELSE contents[i]]

(***************************************************************************)
(* SpecNews: one run of create_news.main, step by step, on a WordPress     *)
(* site whose mapped categories share posts, after a fresh start or after  *)
(* an earlier run that left a mapping entry and a content behind.          *)
(***************************************************************************)
SitePosts == <<Post1, Post2, Post3>>

\* the posts of the mapped categories, in the order of AllCategories; the
\* third category holds no post
CategoryPosts == << <<Post1>>, <<Post1, Post2>>, <<>>, <<Post3>> >>

NewsWorlds ==
    { NoWorld } \cup
    { [mapping_exists |-> TRUE,
       mapping |-> SubSeq(AllCategories, 1, n),
       posts |-> SubSeq(CategoryPosts, 1, n)]
      : n \in 0..Min(MaxCategories, Len(AllCategories)) }

EarlierEntry == [original_url |-> Post1.link, new_url |-> <<"f","o","o">>]

EarlierContent == [id |-> 1, friendlyUrlPath |-> <<"f","o","o">>, title |-> Foo,
                   body |-> Post1.content, categories |-> <<>>, post |-> 1]

NewsEvent(ev, post, status, url, content) ==
    [ev |-> ev, post |-> post, status |-> status, url |-> url, content |-> content]

InitNews ==
    /\ world \in NewsWorlds
    /\ pc = "news_main"
    /\ \E earlier \in BOOLEAN :
          /\ urlFile = IF earlier
                       THEN [exists |-> TRUE, entries |-> <<EarlierEntry>>]
                       ELSE NoFile
          /\ lrContents = IF earlier THEN <<EarlierContent>> ELSE <<>>
          /\ news = [NoNews EXCEPT !.initial = urlFile.entries]
    /\ nextId = Len(lrContents) + 1
    /\ img = NoImg
    /\ tempFiles = {}
    /\ log = <<>>
    /\ lrFolders = <<>>
    /\ lrDocs = <<>>
    /\ CallsIdle
    /\ PagesIdle
    /\ MapperIdle

FailedPage == [ok |-> FALSE, data |-> <<>>, total_pages |-> 1]

\* main: load the category mapping, fetch the posts, load the URL mapping
NewsStart ==
    /\ pc = "news_main"
    /\ LET category_mapping == load_categories_mapping(world)
           wordpress_categories ==
               [c \in DOMAIN category_mapping |-> category_mapping[c].wp_id]
       IN \E site_ok \in BOOLEAN, oks \in [DOMAIN category_mapping -> BOOLEAN] :
            LET site == IF site_ok THEN PostsPage(SitePosts, 1) ELSE FailedPage
                by_category ==
                    [c \in DOMAIN category_mapping |->
                        IF oks[c] THEN <<PostsPage(world.posts[c], 1)>>
                        ELSE <<FailedPage>>]
                r == fetch_posts(wordpress_categories, site, by_category)
            IN IF r.raised
               THEN /\ pc' = "news_critical"
                    /\ UNCHANGED news
               ELSE /\ pc' = "create"
                    /\ news' = [news EXCEPT !.posts_data = r.posts,
                                            !.url_mapping = load_url_mapping(urlFile),
                                            !.post = 1]
    /\ UNCHANGED <<mapperVars, world, img, tempFiles, log, urlFile, lrContents,
                   serverVars, callVars, pageVars>>

\* the first loop of main: process_post for each fetched post, then the
\* reload of the URL mapping
CreatePost ==
    /\ pc = "create"
    /\ IF news.post > Len(news.posts_data)
       THEN /\ pc' = "update"
            /\ news' = [news EXCEPT !.url_mapping = load_url_mapping(urlFile),
                                    !.post = 1]
            /\ UNCHANGED <<log, urlFile, lrContents, nextId>>
       ELSE \E outcome \in CreateOutcomes,
               response_data \in CreateAnswers(
                   generate_friendly_url(news.posts_data[news.post].title),
                   lrContents) :
              LET post_data == news.posts_data[news.post]
                  r == process_post(post_data, news.url_mapping,
                                    load_categories_mapping(world),
                                    lrContents, nextId, urlFile, outcome,
                                    response_data)
              IN /\ lrContents' = r.contents
                 /\ nextId' = r.nextId
                 /\ urlFile' = r.file
                 /\ log' = Append(log, NewsEvent("create", post_data.id, outcome,
                                                 r.reported, r.content))
                 /\ news' = [news EXCEPT !.post = @ + 1]
                 /\ pc' = IF r.raised THEN "news_critical" ELSE "create"
    /\ UNCHANGED <<mapperVars, world, img, tempFiles, lrFolders, lrDocs, callVars, pageVars>>

PatchOutcomes == {"200", "500", "conn"}

\* the second loop of main: look the content up by the post's friendly URL
\* and update it when the rewritten body differs
UpdatePost ==
    /\ pc = "update"
    /\ IF news.post > Len(news.posts_data)
       THEN /\ pc' = "news_done"
            /\ UNCHANGED <<news, log, lrContents>>
       ELSE \E found_ok \in BOOLEAN, patch \in PatchOutcomes :
              LET post_data == news.posts_data[news.post]
                  friendly_url == generate_friendly_url(post_data.title)
                  content_id == get_content_id_by_friendly_url(
                                    friendly_url, lrContents, found_ok)
                  content_html == post_data.content
                  updated_html == replace_internal_links(content_html,
                                                         news.url_mapping)
                  looked == Append(log, NewsEvent("lookup", post_data.id,
                                       IF found_ok THEN "200" ELSE "500",
                                       friendly_url, content_id))
              IN /\ news' = [news EXCEPT !.post = @ + 1]
                 /\ pc' = "update"
                 /\ IF content_id # 0 /\ updated_html # content_html
                    THEN /\ log' = Append(looked, NewsEvent("patch", post_data.id,
                                              patch, updated_html, content_id))
                         /\ lrContents' = IF patch = "200"
                                          THEN PatchContent(lrContents, content_id,
                                                            updated_html)
                                          ELSE lrContents
                    ELSE /\ log' = looked
                         /\ UNCHANGED lrContents
    /\ UNCHANGED <<mapperVars, world, img, tempFiles, urlFile, serverVars, callVars, pageVars>>

NextNews == NewsStart \/ CreatePost \/ UpdatePost

SpecNews == InitNews /\ [][NextNews]_vars

(***************************************************************************)
(* Properties of the Content Migrator.                                     *)
(***************************************************************************)
CreateEvents == SelectSeq(log, LAMBDA e : e.ev = "create")

\* the mapping entries the create requests answered 200 or 201 call for
RECURSIVE EntriesFor(_, _)
EntriesFor(events, n) ==
    IF n = 0 THEN <<>>
    ELSE IF events[n].status \in {"200", "201"}
         THEN Append(EntriesFor(events, n - 1),
                     [original_url |-> PostById(events[n].post).link,
                      new_url |-> events[n].url])
         ELSE EntriesFor(events, n - 1)

\* C8: in the first pass every fetched post gets one create request, in
\* order, whatever happened to the posts before it; a request answered 200 or
\* 201 appends exactly one entry {the post's link, the friendlyUrlPath the
\* answer reports} to the URL mapping file (the path of the content created
\* from the post; the fixed text "URL n\u00e3o encontrada" when the answer
\* holds no such field), every other outcome appends nothing, and the run
\* goes on.
C8_CreateAndRecord ==
    (pc \in {"create", "update", "news_done"}) =>
        /\ Len(CreateEvents) =
               (IF pc = "create" THEN news.post - 1 ELSE Len(news.posts_data))
        /\ \A i \in DOMAIN CreateEvents :
              CreateEvents[i].post = news.posts_data[i].id
        /\ load_url_mapping(urlFile) =
               news.initial \o EntriesFor(CreateEvents, Len(CreateEvents))
        /\ \A i \in DOMAIN CreateEvents :
              CreateEvents[i].status \in {"200", "201"} =>
                  \E c \in DOMAIN lrContents :
                      /\ lrContents[c].id = CreateEvents[i].content
                      /\ lrContents[c].post = CreateEvents[i].post
                      /\ CreateEvents[i].url \in
                             { lrContents[c].friendlyUrlPath,
                               ReportedFriendlyUrl([reports |-> FALSE]) }

\* C8 witness: a create request failed, a later one was answered 200 and one
\* 201, and the file holds their two entries
C8_Witness ==
    /\ pc = "update"
    /\ \E i, j, k \in DOMAIN CreateEvents :
          /\ i < j /\ i < k
          /\ CreateEvents[i].status \in {"500", "conn"}
          /\ CreateEvents[j].status = "200"
          /\ CreateEvents[k].status = "201"
    /\ Len(urlFile.entries) = Len(news.initial) + 2

IsPrefix(a, b) == Len(a) <= Len(b) /\ SubSeq(b, 1, Len(a)) = a

\* C9: the URL mapping file is append-only: every step of the run leaves the
\* file as it was or leaves the old content as a prefix of the new one, with
\* exactly one more entry.
C9_AppendOnly ==
    [][ \/ urlFile' = urlFile
        \/ /\ urlFile'.exists
           /\ IsPrefix(load_url_mapping(urlFile), urlFile'.entries)
           /\ Len(urlFile'.entries) = Len(load_url_mapping(urlFile)) + 1 ]_vars

\* C9 witness: two entries were appended behind the one an earlier run left
C9_Witness ==
    /\ news.initial # <<>>
    /\ Len(urlFile.entries) = Len(news.initial) + 2
    /\ IsPrefix(news.initial, urlFile.entries)

\* C10 (as claimed): in one run at most one create request is issued for
\* each WordPress post ID.
C10_OneCreatePerPost ==
    \A i, j \in DOMAIN CreateEvents :
        CreateEvents[i].post = CreateEvents[j].post => i = j

\* the body the second pass computes for a post: its original raw content
\* rewritten with the whole URL mapping file
Rewritten(id) == ReplaceByMapping(PostById(id).content, urlFile.entries, 1)

LookupEvents == SelectSeq(log, LAMBDA e : e.ev = "lookup")

\* the second pass so far: lookups and updates come after every create
\* attempt, one lookup per fetched post in order, and an update follows a
\* lookup exactly when a content was found and the rewritten body differs
SecondPassLog ==
    /\ \A i, j \in DOMAIN log :
          (log[i].ev \in {"lookup", "patch"} /\ log[j].ev = "create") => j < i
    /\ (\E i \in DOMAIN log : log[i].ev \in {"lookup", "patch"})
          => /\ pc \in {"update", "news_done"}
             /\ Len(CreateEvents) = Len(news.posts_data)
    /\ \A k \in DOMAIN LookupEvents :
          /\ LookupEvents[k].post = news.posts_data[k].id
          /\ LookupEvents[k].url = generate_friendly_url(news.posts_data[k].title)
    /\ \A i \in DOMAIN log :
          log[i].ev = "lookup" =>
             LET found == log[i].content # 0
                 differs == Rewritten(log[i].post) # PostById(log[i].post).content
                 patched == /\ i < Len(log)
                            /\ log[i + 1].ev = "patch"
             IN /\ found <=>
                     (/\ log[i].status = "200"
                      /\ \E c \in DOMAIN lrContents :
                            /\ lrContents[c].id = log[i].content
                            /\ lrContents[c].friendlyUrlPath = log[i].url)
                /\ patched <=> (found /\ differs)
                /\ patched => /\ log[i + 1].post = log[i].post
                              /\ log[i + 1].content = log[i].content
                              /\ log[i + 1].url = Rewritten(log[i].post)
    /\ \A i \in DOMAIN log :
          log[i].ev = "patch" => (i > 1 /\ log[i - 1].ev = "lookup")

\* a step of the second pass changes at most the body of one content
BodyOnly ==
    (pc = "update" /\ lrContents' # lrContents) =>
        /\ Len(lrContents') = Len(lrContents)
        /\ \E c \in DOMAIN lrContents :
              /\ lrContents' = [lrContents EXCEPT ![c].body = lrContents'[c].body]
              /\ lrContents'[c].body = Rewritten(news.posts_data[news.post].id)

\* C11: no lookup or PATCH is issued before the create attempt of the last
\* post has finished; then, for each fetched post in order, a PATCH is issued
\* if and only if a content is found by the post's generated friendly URL and
\* the post's original raw content rewritten with the whole URL mapping file
\* (the entries appended in this run included) differs from the original; the
\* PATCH carries that rewritten content and changes the body field only.
C11_SecondPass == []SecondPassLog /\ [][BodyOnly]_vars

\* C11 witness: with no mapping left by an earlier run, a post's content was
\* found and updated through an entry appended in this run, and another post
\* was found and left unchanged
C11_Witness ==
    /\ news.initial = <<>>
    /\ pc = "news_done"
    /\ \E i, j \in DOMAIN log :
          /\ log[i].ev = "patch" /\ log[i].status = "200"
          /\ \E c \in DOMAIN lrContents :
                lrContents[c].id = log[i].content /\ lrContents[c].body = log[i].url
          /\ log[j].ev = "lookup" /\ log[j].content # 0
          /\ (j = Len(log) \/ log[j + 1].ev # "patch")

\* the id of the content a post's own create request made in this run, 0
\* when it failed
OwnContent(k) == CreateEvents[k].content

\* C16 (as claimed): a fetched post is found in the second pass only if its
\* own create request succeeded, the content found is the one that request
\* created, and every PATCH is sent to a content created from the post whose
\* rewritten body it carries.
C16_PerPostStateMachine ==
    /\ \A k \in DOMAIN LookupEvents :
          LookupEvents[k].content # 0 =>
              /\ OwnContent(k) # 0
              /\ OwnContent(k) = LookupEvents[k].content
    /\ \A i \in DOMAIN log :
          log[i].ev = "patch" =>
              \E c \in DOMAIN lrContents :
                  /\ lrContents[c].id = log[i].content
                  /\ lrContents[c].post = log[i].post

(***************************************************************************)
(* get_categories_wordpress.py: the Category Mapper.  The script has no    *)
(* exception handler: a request without an answer ("conn") ends it.        *)
(***************************************************************************)
taxonomy_vocabulary_name == <<"C","a","t","e","g","o","r","i","a","s">>

\* mutant of vocabulary_obtained: every value counts as a vocabulary
vocabulary_obtained_always(vocabulary_id) == TRUE

\* if vocabulary_id: (None is false)
vocabulary_obtained(vocabulary_id) == vocabulary_id # 0

\* create_taxonomy_vocabulary(): the id, or 0 for None
create_taxonomy_vocabulary(tax, nid, oCreate) ==
    IF oCreate = "conn"
    THEN [raised |-> TRUE, ret |-> 0, tax |-> tax, nextId |-> nid]
    ELSE IF oCreate = "ok"
    THEN [raised |-> FALSE, ret |-> nid,
          tax |-> [tax EXCEPT !.vocabularies =
                      Append(@, [id |-> nid, name |-> taxonomy_vocabulary_name])],
          nextId |-> nid + 1]
    ELSE [raised |-> FALSE, ret |-> 0, tax |-> tax, nextId |-> nid]

\* get_taxonomy_vocabulary(): the id of the first vocabulary named
\* "Categorias", created when the listing does not hold one; 0 for None
get_taxonomy_vocabulary(tax, nid, oList, oCreate) ==
    IF oList = "conn"
    THEN [raised |-> TRUE, ret |-> 0, tax |-> tax, nextId |-> nid]
    ELSE IF oList = "http"
    THEN [raised |-> FALSE, ret |-> 0, tax |-> tax, nextId |-> nid]
    ELSE LET vocabularies == tax.vocabularies
         IN IF HasNamed(vocabularies, taxonomy_vocabulary_name)
            THEN [raised |-> FALSE,
                  ret |-> FirstNamed(vocabularies, taxonomy_vocabulary_name).id,
                  tax |-> tax, nextId |-> nid]
            ELSE create_taxonomy_vocabulary(tax, nid, oCreate)

\* name.strip().lower()
NameKey(name) == Lower(Strip(name))

\* {category['name'].strip().lower(): category['id'] for ...}: a later
\* category of the same key replaces an earlier one
DictOf(items) ==
    [k \in {NameKey(items[i].name) : i \in DOMAIN items} |->
        items[SetMax({i \in DOMAIN items : NameKey(items[i].name) = k})].id]

\* get_liferay_categories(vocabulary_id): page 1 holds the vocabulary's
\* categories (fewer than pageSize), page 2 is empty; a page answered with an
\* error status ends the loop with what was collected
get_liferay_categories(tax, vocabulary_id, o) ==
    LET data == SelectSeq(tax.categories, LAMBDA c : c.vocabulary = vocabulary_id)
    IN IF o[1] = "conn" \/ (o[1] = "ok" /\ data # <<>> /\ o[2] = "conn")
       THEN [raised |-> TRUE, ret |-> DictOf(<<>>)]
       ELSE IF o[1] = "http"
       THEN [raised |-> FALSE, ret |-> DictOf(<<>>)]
       ELSE [raised |-> FALSE, ret |-> DictOf(data)]

\* create_liferay_category(vocabulary_id, name): the id, or 0 for None
create_liferay_category(tax, nid, vocabulary_id, name, oCreate) ==
    IF oCreate = "conn"
    THEN [raised |-> TRUE, ret |-> 0, tax |-> tax, nextId |-> nid]
    ELSE IF oCreate = "ok"
    THEN [raised |-> FALSE, ret |-> nid,
          tax |-> [tax EXCEPT !.categories =
                      Append(@, [id |-> nid, name |-> name,
                                 vocabulary |-> vocabulary_id])],
          nextId |-> nid + 1]
    ELSE [raised |-> FALSE, ret |-> 0, tax |-> tax, nextId |-> nid]

MappingEntry(wp_category, liferay_id) ==
    [wp_id |-> wp_category.id, wp_name |-> wp_category.name,
     lr_id |-> liferay_id, lr_name |-> wp_category.name]

\* the body of map_and_create_categories' loop for one WordPress category:
\* liferay_categories is the dictionary read before the loop
map_category(wp_category, liferay_categories, category_mapping, tax, nid, vocabulary_id, oCreate) ==
    LET wp_name == NameKey(wp_category.name)
    IN IF wp_name \in DOMAIN liferay_categories
       THEN [raised |-> FALSE, tax |-> tax, nextId |-> nid, requested |-> FALSE,
             category_mapping |->
                 Append(category_mapping,
                        MappingEntry(wp_category, liferay_categories[wp_name]))]
       ELSE LET r == create_liferay_category(tax, nid, vocabulary_id,
                                             wp_category.name, oCreate)
            IN [raised |-> r.raised, tax |-> r.tax, nextId |-> r.nextId,
                requested |-> TRUE,
                category_mapping |->
                    IF ~r.raised /\ r.ret # 0
                    THEN Append(category_mapping, MappingEntry(wp_category, r.ret))
                    ELSE category_mapping]

(***************************************************************************)
(* SpecMapper: one run of the Category Mapper script, step by step.        *)
(***************************************************************************)
MaxWpCategories == 2

News == <<"N","e","w","s">>

\* the names of WordPress categories: two that differ in case and spaces only,
\* an unrelated one, and one in capitals with accents (U+00C7 U+00C3)
WpNames == { News, <<"n","e","w","s"," ">>, Foo, <<"A","U+00C7","U+00C3","O">> }

\* the WordPress categories of the site, with their ids
WpCategoryLists ==
    UNION { { [i \in 1..n |-> [id |-> 10 * i, name |-> names[i]]]
              : names \in [1..n -> WpNames] } : n \in 0..MaxWpCategories }

\* the categories endpoint: one page and an empty page, an error status, or
\* a request (the first, or the one after the page) that gets no answer
WpEndpoints ==
    { IF L = <<>> THEN <<[ok |-> TRUE, answered |-> TRUE, data |-> <<>>]>>
      ELSE <<[ok |-> TRUE, answered |-> TRUE, data |-> L],
             [ok |-> TRUE, answered |-> TRUE, data |-> <<>>]>>
      : L \in WpCategoryLists }
    \cup { <<[ok |-> TRUE, answered |-> TRUE, data |-> L], NoAnswer>>
            : L \in WpCategoryLists \ {<<>>} }
    \cup { <<FailedResponse>>, <<NoAnswer>> }

InitialTaxonomies ==
    { NoTaxonomy,
      [vocabularies |-> <<[id |-> 1, name |-> <<"T","a","g","s">>]>>, categories |-> <<>>],
      [vocabularies |-> <<[id |-> 1, name |-> taxonomy_vocabulary_name]>>,
       categories |-> <<>>],
      [vocabularies |-> <<[id |-> 1, name |-> taxonomy_vocabulary_name]>>,
       categories |-> <<[id |-> 2, name |-> <<" ">> \o News, vocabulary |-> 1]>>],
      [vocabularies |-> <<[id |-> 1, name |-> taxonomy_vocabulary_name]>>,
       categories |-> <<[id |-> 2, name |-> <<"A","U+00E7","U+00E3","o">>,
                         vocabulary |-> 1]>>] }

InitMapper ==
    /\ lrTaxonomy \in InitialTaxonomies
    /\ nextId = Len(lrTaxonomy.vocabularies) + Len(lrTaxonomy.categories) + 1
    /\ \E wp \in WpEndpoints :
          mapper = [pc |-> "fetch", wp |-> wp, wordpress_categories |-> <<>>,
                    first |-> 0, vocabulary_id |-> 0, attempts |-> 0,
                    liferay_categories |-> DictOf(<<>>), category |-> 0,
                    category_mapping |-> <<>>, written |-> FALSE, file |-> <<>>,
                    creates |-> <<>>, initial |-> lrTaxonomy.categories]
    /\ lrFolders = <<>>
    /\ lrDocs = <<>>
    /\ CallsIdle
    /\ PagesIdle
    /\ RunIdle
    /\ NewsIdle

\* wordpress_categories = get_all_categories(wp_api_url); nothing catches
\* the exception of a request without an answer, which ends the script
MapperFetch ==
    /\ mapper.pc = "fetch"
    /\ LET r == get_all_categories(mapper.wp)
       IN mapper' = [mapper EXCEPT
                        !.pc = IF r.raised THEN "crashed" ELSE "vocabulary",
                        !.wordpress_categories = r.categories]
    /\ UNCHANGED <<lrTaxonomy, serverVars, callVars, pageVars, runVars, newsVars>>

\* vocabulary_id = get_taxonomy_vocabulary(), the first time
MapperVocabulary ==
    /\ mapper.pc = "vocabulary"
    /\ \E o \in FolderOutcomes :
         LET r == get_taxonomy_vocabulary(lrTaxonomy, nextId, o[1], o[2])
         IN /\ lrTaxonomy' = r.tax
            /\ nextId' = r.nextId
            /\ mapper' = [mapper EXCEPT
                             !.pc = IF r.raised THEN "crashed" ELSE "checked",
                             !.first = r.ret,
                             !.vocabulary_id = r.ret,
                             !.attempts = @ + 1]
    /\ UNCHANGED <<lrFolders, lrDocs, callVars, pageVars, runVars, newsVars>>

\* if vocabulary_id: sleep, get_taxonomy_vocabulary() again; else give up.
\* When the second call raises, the assignment does not happen and
\* vocabulary_id keeps the id of the first call
MapperRefetch ==
    /\ mapper.pc = "checked"
    /\ IF vocabulary_obtained(mapper.vocabulary_id)
       THEN \E o \in FolderOutcomes :
              LET r == get_taxonomy_vocabulary(lrTaxonomy, nextId, o[1], o[2])
              IN /\ lrTaxonomy' = r.tax
                 /\ nextId' = r.nextId
                 /\ mapper' = [mapper EXCEPT
                                  !.pc = IF r.raised THEN "crashed" ELSE "rechecked",
                                  !.vocabulary_id = IF r.raised THEN @ ELSE r.ret,
                                  !.attempts = @ + 1]
       ELSE /\ mapper' = [mapper EXCEPT !.pc = "failed"]
            /\ UNCHANGED <<lrTaxonomy, nextId>>
    /\ UNCHANGED <<lrFolders, lrDocs, callVars, pageVars, runVars, newsVars>>

\* if vocabulary_id: map_and_create_categories begins by reading the
\* categories of the vocabulary; else give up
MapperList ==
    /\ mapper.pc = "rechecked"
    /\ IF vocabulary_obtained(mapper.vocabulary_id)
       THEN \E o \in FolderOutcomes :
              LET r == get_liferay_categories(lrTaxonomy, mapper.vocabulary_id, o)
              IN mapper' = [mapper EXCEPT
                               !.pc = IF r.raised THEN "crashed" ELSE "category",
                               !.liferay_categories = r.ret,
                               !.category = 1]
       ELSE mapper' = [mapper EXCEPT !.pc = "failed"]
    /\ UNCHANGED <<lrTaxonomy, serverVars, callVars, pageVars, runVars, newsVars>>

\* head and body of the loop over wp_categories; after the last category the
\* mapping is saved to category_mapping.json
MapperCategory ==
    /\ mapper.pc = "category"
    /\ IF mapper.category > Len(mapper.wordpress_categories)
       THEN /\ mapper' = [mapper EXCEPT !.pc = "done", !.written = TRUE,
                                        !.file = mapper.category_mapping]
            /\ UNCHANGED <<lrTaxonomy, nextId>>
       ELSE \E oCreate \in Outcomes :
              LET wp_category == mapper.wordpress_categories[mapper.category]
                  r == map_category(wp_category, mapper.liferay_categories,
                                    mapper.category_mapping, lrTaxonomy, nextId,
                                    mapper.vocabulary_id, oCreate)
                  present == { c \in DOMAIN lrTaxonomy.categories :
                                 /\ lrTaxonomy.categories[c].vocabulary =
                                        mapper.vocabulary_id
                                 /\ NameKey(lrTaxonomy.categories[c].name) =
                                        NameKey(wp_category.name) }
              IN /\ (~r.requested) => oCreate = "ok"
                 /\ lrTaxonomy' = r.tax
                 /\ nextId' = r.nextId
                 /\ mapper' = [mapper EXCEPT
                        !.pc = IF r.raised THEN "crashed" ELSE "category",
                        !.category = @ + 1,
                        !.category_mapping = r.category_mapping,
                        !.creates = IF r.requested
                                    THEN Append(@, [name |-> wp_category.name,
                                                    existed |-> present # {}])
                                    ELSE @]
    /\ UNCHANGED <<lrFolders, lrDocs, callVars, pageVars, runVars, newsVars>>

NextMapper ==
    MapperFetch \/ MapperVocabulary \/ MapperRefetch \/ MapperList \/ MapperCategory

SpecMapper == InitMapper /\ [][NextMapper]_vars

\* C12 (as claimed): when the first attempt to obtain the vocabulary fails,
\* the script makes exactly one more attempt before it gives up.
C12_RetryOnceOnFailure ==
    (mapper.pc = "failed" /\ mapper.first = 0) => mapper.attempts = 2

\* C12 (amended): the script asks for the vocabulary again, once, exactly
\* when the first attempt obtained it; a first attempt that fails is final.
\* Whenever the script gives up for want of the vocabulary (after the first
\* attempt or after the second), no category creation request was issued and
\* category_mapping.json was not written; the mapping is written only with a
\* vocabulary obtained twice.  A run that ends on a WordPress request without
\* an answer, before any attempt, creates and writes nothing either.
C12_RefetchAfterSuccess ==
    /\ mapper.attempts <= 2
    /\ mapper.pc \in {"rechecked", "category", "done"}
          => (mapper.attempts = 2 /\ mapper.first # 0)
    /\ mapper.pc = "failed"
          => /\ mapper.attempts = (IF mapper.first = 0 THEN 1 ELSE 2)
             /\ mapper.vocabulary_id = 0
             /\ mapper.creates = <<>>
             /\ ~mapper.written
             /\ lrTaxonomy.categories = mapper.initial
    /\ (mapper.written \/ mapper.creates # <<>>)
          => (mapper.first # 0 /\ mapper.vocabulary_id # 0)
    /\ (mapper.pc = "crashed" /\ mapper.attempts = 0)
          => (mapper.creates = <<>> /\ ~mapper.written
              /\ lrTaxonomy.categories = mapper.initial)

\* C12 witness: the vocabulary was obtained, the second request for it
\* failed, and the script gave up without creating or writing anything
C12_Witness ==
    /\ mapper.pc = "failed"
    /\ mapper.first # 0
    /\ mapper.attempts = 2
    /\ mapper.wordpress_categories # <<>>
    /\ mapper.creates = <<>>
    /\ ~mapper.written

\* the categories the run created
CreatedCategories ==
    SelectSeq(lrTaxonomy.categories,
              LAMBDA c : \A i \in DOMAIN mapper.initial : mapper.initial[i].id # c.id)

\* C17 (as claimed): a creation request is issued only when no category of
\* the vocabulary has the same trimmed, lower-cased name at that moment, so
\* no two categories created in one run have equal trimmed lower-cased names,
\* and every mapping entry carries the id of a category with the matching
\* name.
C17_CreateIfAbsent ==
    mapper.pc \in {"category", "done", "crashed"} =>
        /\ \A i \in DOMAIN mapper.creates : ~mapper.creates[i].existed
        /\ \A i, j \in DOMAIN CreatedCategories :
              NameKey(CreatedCategories[i].name) = NameKey(CreatedCategories[j].name)
                  => i = j
        /\ \A i \in DOMAIN mapper.category_mapping :
              \E c \in DOMAIN lrTaxonomy.categories :
                  /\ lrTaxonomy.categories[c].id = mapper.category_mapping[i].lr_id
                  /\ NameKey(lrTaxonomy.categories[c].name) =
                         NameKey(mapper.category_mapping[i].wp_name)

(***************************************************************************)
(* SpecNames: sanitize_folder_title and generate_unique_name applied to    *)
(* titles and name sets drawn from small alphabets, long titles included.  *)
(* calls holds the one call of a behaviour, before and after it is made.   *)
(***************************************************************************)
MaxInputLen == 4

MaxSuffix == 3

TitleChars == {"c", "O", "n", "<", "."}

Rep(c, n) == [i \in 1..n |-> c]

LongTitles ==
    { Rep("a", MaxTitleLen), Rep("a", MaxTitleLen + 1),
      <<"<">> \o Rep("a", MaxTitleLen + 1),
      Rep("a", MaxTitleLen - 1) \o <<"<", "b", "c">>,
      Rep("a", MaxTitleLen - 2) \o <<".", ".">>,
      <<"N","U","L","L">>, <<"l","p","t","9",":">>, <<"c","o","m","1","0">>,
      <<"n","u","l",".",".">> }

TitleInputs ==
    UNION { [1..n -> TitleChars] : n \in 0..MaxInputLen } \cup LongTitles

Suffixed(base, k) == base \o <<"_">> \o Str(k)

BaseNames == { Foo, <<>>, Suffixed(Foo, 1) }

ExistingNames ==
    SUBSET ({ Foo, <<>>, Suffixed(<<>>, 1), Suffixed(Suffixed(Foo, 1), 1) }
            \cup { Suffixed(Foo, k) : k \in 1..MaxSuffix })
    \cup { {Foo} \cup { Suffixed(Foo, k) : k \in 1..10 } }

\* a call about to be made
Pending(op, name, existing) ==
    [op |-> op, name |-> name, existing |-> existing, applied |-> FALSE,
     raised |-> FALSE, ret |-> <<>>]

InitNames ==
    /\ lrFolders = <<>>
    /\ lrDocs = <<>>
    /\ nextId = 1
    /\ calls \in { <<Pending("sanitize", title, {})>> : title \in TitleInputs }
                 \cup { <<Pending("unique", c[1], c[2])>> :
                           c \in BaseNames \X ExistingNames }
    /\ nCalls = 0
    /\ PagesIdle
    /\ RunIdle
    /\ NewsIdle
    /\ MapperIdle

CallSanitize ==
    /\ nCalls = 0
    /\ calls[1].op = "sanitize"
    /\ LET title == calls[1].name
       IN calls' = <<[calls[1] EXCEPT
                         !.applied = TRUE,
                         !.raised = SanitizeRaises(title),
                         !.ret = IF SanitizeRaises(title) THEN <<>>
                                 ELSE sanitize_folder_title(title)]>>
    /\ nCalls' = nCalls + 1
    /\ UNCHANGED <<mapperVars, serverVars, pageVars, runVars, newsVars>>

CallUnique ==
    /\ nCalls = 0
    /\ calls[1].op = "unique"
    /\ calls' = <<[calls[1] EXCEPT
                      !.applied = TRUE,
                      !.ret = generate_unique_name(calls[1].name,
                                                   calls[1].existing)]>>
    /\ nCalls' = nCalls + 1
    /\ UNCHANGED <<mapperVars, serverVars, pageVars, runVars, newsVars>>

NextNames == CallSanitize \/ CallUnique

SpecNames == InitNames /\ [][NextNames]_vars

InvalidSet == {"<", ">", ":", "\"", "/", "\\", "|", "?", "*"}

\* the title with the invalid characters left out
WithoutInvalid(title) == SelectSeq(title, LAMBDA c : c \notin InvalidSet)

Safe == <<"_","s","a","f","e">>

\* C14: sanitize_folder_title raises for the empty title; for every other
\* title its result holds none of the characters < > : " / \ | ? *, is at
\* most 255 characters long, and is the title without those characters
\* followed by _safe whenever that title, lower-cased, is a reserved name.
C14_SanitizeFolderTitle ==
    \A i \in DOMAIN calls :
        (calls[i].op = "sanitize" /\ calls[i].applied) =>
            /\ calls[i].raised <=> calls[i].name = <<>>
            /\ ~calls[i].raised =>
                  /\ \A k \in DOMAIN calls[i].ret : calls[i].ret[k] \notin InvalidSet
                  /\ Len(calls[i].ret) <= 255
                  /\ Lower(WithoutInvalid(calls[i].name)) \in reserved_names
                        => calls[i].ret = WithoutInvalid(calls[i].name) \o Safe

\* C14 witness: a title that is a reserved name once an invalid character is
\* removed came back suffixed with _safe
C14_Witness ==
    /\ calls[1].op = "sanitize"
    /\ calls[1].applied
    /\ calls[1].name = <<"c", "<", "O", "n">>
    /\ calls[1].ret = <<"c", "O", "n">> \o Safe

\* C15: the result of generate_unique_name(base, existing) is not in
\* existing; it is base when base is not in existing, and otherwise base_N
\* for the smallest N >= 1 with base_N not in existing ("Foo" with
\* {"Foo", "Foo_1"} gives "Foo_2").
C15_UniqueName ==
    \A i \in DOMAIN calls :
        (calls[i].op = "unique" /\ calls[i].applied) =>
            LET base == calls[i].name
                existing == calls[i].existing
                result == calls[i].ret
            IN /\ result \notin existing
               /\ base \notin existing => result = base
               /\ base \in existing =>
                     \E N \in 1..(Cardinality(existing) + 1) :
                         /\ result = Suffixed(base, N)
                         /\ \A M \in 1..(N - 1) : Suffixed(base, M) \in existing
               /\ (base = Foo /\ existing = {Foo, Suffixed(Foo, 1)})
                     => result = <<"F","o","o","_","2">>

\* C15 witness: "Foo" with {"Foo", "Foo_1"} gave "Foo_2"
C15_Witness ==
    /\ calls[1].op = "unique"
    /\ calls[1].applied
    /\ calls[1].name = Foo
    /\ calls[1].existing = {Foo, Suffixed(Foo, 1)}
    /\ calls[1].ret = Suffixed(Foo, 2)

(***************************************************************************)
(* SpecFetch: fetch_posts run against a WordPress site that serves its     *)
(* posts in pages of per_page and reports the page count in                *)
(* X-WP-TotalPages.  Posts are their ids.                                  *)
(***************************************************************************)
TotalPages(all) == (Len(all) + per_page - 1) \div per_page

\* the answer to /posts?...&per_page=100&page=p (page 1 when p is left out)
WpPostsPage(all, p, failing) ==
    IF failing THEN [ok |-> FALSE, data |-> <<>>, total_pages |-> 1]
    ELSE PostsPage(SubSeq(all, (p - 1) * per_page + 1, Min(p * per_page, Len(all))),
                   TotalPages(all))

\* the answers to the page requests 1, 2, ... ; a page beyond the last one is
\* answered with an error status
WpPostsPages(all, fail) ==
    [p \in 1..(IF TotalPages(all) = 0 THEN 1 ELSE TotalPages(all)) |->
        WpPostsPage(all, p, p = fail)]

\* numbers of posts of the whole site, and of one category
SiteCounts == {0, 37, per_page, 137, 237}

CategoryCounts == {0, per_page, 237}

PostIds(c, n) == [j \in 1..n |-> 1000 * c + j]

\* without mapped categories the site's posts and the unfiltered request vary,
\* with mapped categories the posts of each category and the page that fails
FetchWorlds ==
    { [mapping_exists |-> exists, mapping |-> <<>>, site |-> PostIds(0, count),
       posts |-> <<>>, fail |-> [c \in {0} |-> fail]]
      : exists \in BOOLEAN, count \in SiteCounts, fail \in 0..1 }
    \cup
    UNION { { [mapping_exists |-> TRUE,
               mapping |-> SubSeq(AllCategories, 1, n),
               site |-> PostIds(0, 37),
               posts |-> [c \in 1..n |-> PostIds(c, count[c])],
               fail |-> [c \in 0..n |-> IF c = 0 THEN 0 ELSE fail[c]]]
              : count \in [1..n -> CategoryCounts], fail \in [1..n -> 0..MaxPages] }
            : n \in 1..Min(MaxCategories, Len(AllCategories)) }

InitFetch ==
    /\ world \in FetchWorlds
    /\ pc = "fetch_main"
    /\ img = NoImg
    /\ tempFiles = {}
    /\ log = <<>>
    /\ lrFolders = <<>>
    /\ lrDocs = <<>>
    /\ nextId = 1
    /\ CallsIdle
    /\ PagesIdle
    /\ NewsIdle
    /\ MapperIdle

\* main up to posts_data = fetch_posts(wordpress_categories)
FetchPosts ==
    /\ pc = "fetch_main"
    /\ LET category_mapping == load_categories_mapping(world)
           wordpress_categories ==
               [c \in DOMAIN category_mapping |-> category_mapping[c].wp_id]
           site == WpPostsPage(world.site, 1, world.fail[0] = 1)
           by_category == [c \in DOMAIN category_mapping |->
                              WpPostsPages(world.posts[c], world.fail[c])]
           r == fetch_posts(wordpress_categories, site, by_category)
       IN /\ pc' = IF r.raised THEN "news_critical" ELSE "fetched"
          /\ news' = [posts_data |-> r.posts, url_mapping |-> <<>>, post |-> 0,
                      initial |-> <<>>, requests |-> r.requests]
    /\ UNCHANGED <<mapperVars, world, img, tempFiles, log, urlFile, lrContents,
                   serverVars, callVars, pageVars>>

NextFetch == FetchPosts

SpecFetch == InitFetch /\ [][NextFetch]_vars

\* the posts of the categories 1..n, one category after the other
RECURSIVE ConcatCategories(_, _)
ConcatCategories(posts, n) ==
    IF n = 0 THEN <<>> ELSE ConcatCategories(posts, n - 1) \o posts[n]

RECURSIVE SumPages(_, _)
SumPages(posts, n) ==
    IF n = 0 THEN 0
    ELSE SumPages(posts, n - 1)
         + (IF TotalPages(posts[n]) = 0 THEN 1 ELSE TotalPages(posts[n]))

\* C18 (as claimed): with an empty category mapping fetch_posts returns every
\* post of the site, however many there are; with mapped categories it
\* returns every post of every category, one request per page up to the
\* reported total page count.
C18_FetchAllPosts ==
    pc = "fetched" =>
        IF world.mapping = <<>>
        THEN news.posts_data = world.site
        ELSE /\ news.posts_data = ConcatCategories(world.posts, Len(world.mapping))
             /\ news.requests = SumPages(world.posts, Len(world.mapping))

\* the part of C18 that the code keeps: the mapped categories are fetched in
\* full, page by page
C18_CategoryHalfHolds ==
    (pc = "fetched" /\ world.mapping # <<>>) =>
        /\ news.posts_data = ConcatCategories(world.posts, Len(world.mapping))
        /\ news.requests = SumPages(world.posts, Len(world.mapping))

\* what the code does with an empty mapping: one request, the first page
C18_FirstPageOnly ==
    (pc = "fetched" /\ world.mapping = <<>>) =>
        /\ news.requests = 1
        /\ news.posts_data = SubSeq(world.site, 1, Min(per_page, Len(world.site)))

====
